---- MODULE Spec2Model ----
(***************************************************************************)
(* Verification model of xhs-alpha-picks: the payload walkers, the field   *)
(* normalisers, the OCR collectors, the note processor and the extraction  *)
(* loop of AlphaPickSearchAgent.search_keyword.                            *)
(*                                                                         *)
(* JSON-like values (Python objects after json.loads) are records          *)
(*   [t |-> tag, v |-> content]                                            *)
(* with tag "null" (None), "num", "str" (v is the sequence of the string's *)
(* characters), "list" (v is the sequence of items) and "map" (v is the    *)
(* sequence of <<key, value>> pairs in insertion order, keys distinct).    *)
(* A raised exception is the value [t |-> "raise", v |-> its class name].  *)
(***************************************************************************)
EXTENDS Integers, Sequences, FiniteSets, TLC

VARIABLES
    pc,              \* position of the operation under study
    arg,             \* fn: the value handed to the function under study
    ret,             \* fn: what the applied functions returned
    tool_payloads,   \* run: search_keyword's tool_payloads
    pending,         \* run: temp_notes[:count] still to be fetched
    calls_left,      \* run: tool calls of the assistant message still to run
    raw_notes,       \* run: search_keyword's raw_notes
    processed_notes, \* run / process: the list process_notes returned
    target_date,     \* run / process: the target date process_notes returned
    settings         \* run / process: the caller's parameters and the clock

vars == <<pc, arg, ret, tool_payloads, pending, calls_left, raw_notes,
          processed_notes, target_date, settings>>

-----------------------------------------------------------------------------
(* Python values *)

Null == [t |-> "null", v |-> <<>>]
Num(n) == [t |-> "num", v |-> n]
Str(s) == [t |-> "str", v |-> s]
List(l) == [t |-> "list", v |-> l]
Map(m) == [t |-> "map", v |-> m]
Raise(e) == [t |-> "raise", v |-> e]

IsStr(j) == j.t = "str"
IsList(j) == j.t = "list"
IsDict(j) == j.t = "map"
IsRaise(j) == j.t = "raise"

\* bool(j): None, 0, "", [] and {} are false
Truthy(j) ==
    CASE j.t = "null" -> FALSE
      [] j.t = "num" -> j.v # 0
      [] OTHER -> Len(j.v) > 0

\* a or b
Or(a, b) == IF Truthy(a) THEN a ELSE b

\* key in d
Has(d, key) == \E i \in 1..Len(d.v) : d.v[i][1] = key

\* d.get(key, default)
GetD(d, key, default) ==
    IF Has(d, key)
    THEN d.v[CHOOSE i \in 1..Len(d.v) : d.v[i][1] = key][2]
    ELSE default

\* d.get(key)
Get(d, key) == GetD(d, key, Null)

\* list(d.values())
Values(d) == [i \in 1..Len(d.v) |-> d.v[i][2]]

\* d[key] = value: in place when the key exists, appended otherwise
SetItem(d, key, value) ==
    IF Has(d, key)
    THEN Map([i \in 1..Len(d.v) |->
                 IF d.v[i][1] = key THEN <<key, value>> ELSE d.v[i]])
    ELSE Map(Append(d.v, <<key, value>>))

RECURSIVE UpdatePairs(_, _)
UpdatePairs(d, pairs) ==
    IF pairs = <<>> THEN d
    ELSE UpdatePairs(SetItem(d, Head(pairs)[1], Head(pairs)[2]), Tail(pairs))

\* d.update(other)
Update(d, other) == UpdatePairs(d, other.v)

-----------------------------------------------------------------------------
(* Strings: sequences of characters *)

Whitespace == {" ", "\n", "\t"}

RECURSIVE lstrip(_)
lstrip(s) ==
    IF s # <<>> /\ Head(s) \in Whitespace THEN lstrip(Tail(s)) ELSE s

RECURSIVE rstrip(_)
rstrip(s) ==
    IF s # <<>> /\ s[Len(s)] \in Whitespace
    THEN rstrip(SubSeq(s, 1, Len(s) - 1))
    ELSE s

\* s.strip()
strip(s) == rstrip(lstrip(s))

\* key.lower() over the key names the model uses
lower(key) ==
    CASE key = "noteId" -> "noteid"
      [] key = "ID" -> "id"
      [] key = "NID" -> "nid"
      [] key = "Note_Id" -> "note_id"
      [] key = "OCR" -> "ocr"
      [] key = "imageOcr" -> "imageocr"
      [] OTHER -> key

RECURSIVE Concat(_)
Concat(seqs) == IF seqs = <<>> THEN <<>> ELSE Head(seqs) \o Concat(Tail(seqs))

\* sep.join(parts)
RECURSIVE join(_, _)
join(sep, parts) ==
    IF parts = <<>> THEN <<>>
    ELSE IF Len(parts) = 1 THEN Head(parts)
    ELSE Head(parts) \o sep \o join(sep, Tail(parts))

SeqToSet(s) == {s[i] : i \in 1..Len(s)}

-----------------------------------------------------------------------------
(* xhs_alpha_picks/note_parser.py *)

\* _first_str: the first key whose value is a str with a non-blank strip()
RECURSIVE _first_str(_, _)
_first_str(data, keys) ==
    IF keys = <<>> THEN Null
    ELSE IF /\ Has(data, Head(keys))
            /\ IsStr(Get(data, Head(keys)))
            /\ strip(Get(data, Head(keys)).v) # <<>>
         THEN Get(data, Head(keys))
         ELSE _first_str(data, Tail(keys))

note_keys == {"note_id", "noteid", "id", "noteid"}

\* _maybe_note: the dictionary if it resembles a note payload, else None
_maybe_note(value) ==
    IF {lower(value.v[i][1]) : i \in 1..Len(value.v)} \cap note_keys # {}
    THEN value
    ELSE IF Has(value, "note_id") \/ Has(value, "noteId") \/ Has(value, "id")
         THEN value
         ELSE Null

RECURSIVE _collect_note_dicts(_)
RECURSIVE _collect_note_dicts_each(_)

\* the loops "for value in payload.values()" / "for item in payload"
_collect_note_dicts_each(items) ==
    IF items = <<>> THEN <<>>
    ELSE _collect_note_dicts(Head(items)) \o _collect_note_dicts_each(Tail(items))

_collect_note_dicts(payload) ==
    IF IsDict(payload)
    THEN (IF Truthy(_maybe_note(payload)) THEN <<payload>> ELSE <<>>)
             \o _collect_note_dicts_each(Values(payload))
    ELSE IF IsList(payload)
         THEN _collect_note_dicts_each(payload.v)
         ELSE <<>>

candidate_keys == <<"image_texts", "image_text", "ocr_texts", "ocr_text", "texts">>

\* lines 144-150: the fragments one candidate key's value contributes
\* (a blank str is a Sequence too: its characters are its items)
_fragments_of_value(value) ==
    IF IsStr(value) /\ strip(value.v) # <<>>
    THEN <<value.v>>
    ELSE IF IsStr(value)
         THEN SelectSeq([i \in 1..Len(value.v) |-> <<value.v[i]>>],
                        LAMBDA c : strip(c) # <<>>)
         ELSE IF IsList(value)
              THEN LET kept == SelectSeq(value.v,
                                   LAMBDA it : IsStr(it) /\ strip(it.v) # <<>>)
                   IN  [i \in 1..Len(kept) |-> kept[i].v]
              ELSE <<>>

\* lines 159-166: trim, drop blanks, keep the first occurrence
RECURSIVE _dedupe(_, _)
_dedupe(fragments, deduped) ==
    IF fragments = <<>> THEN deduped
    ELSE LET normalized == strip(Head(fragments))
         IN  _dedupe(Tail(fragments),
                     IF normalized # <<>> /\ normalized \notin SeqToSet(deduped)
                     THEN Append(deduped, normalized)
                     ELSE deduped)

RECURSIVE _collect_text_fragments(_)
RECURSIVE _nested_fragments(_)
RECURSIVE _nested_fragments_items(_)

\* lines 156-158: the dict items of a list value
_nested_fragments_items(items) ==
    IF items = <<>> THEN <<>>
    ELSE (IF IsDict(Head(items)) THEN _collect_text_fragments(Head(items)) ELSE <<>>)
             \o _nested_fragments_items(Tail(items))

\* lines 152-158: nested OCR structures, over the values in key order
_nested_fragments(values) ==
    IF values = <<>> THEN <<>>
    ELSE (IF IsDict(Head(values)) THEN _collect_text_fragments(Head(values))
          ELSE IF IsList(Head(values)) THEN _nested_fragments_items(Head(values).v)
          ELSE <<>>)
             \o _nested_fragments(Tail(values))

_collect_text_fragments(raw_note) ==
    _dedupe(Concat([i \in 1..Len(candidate_keys) |->
                       _fragments_of_value(Get(raw_note, candidate_keys[i]))])
                \o _nested_fragments(Values(raw_note)),
            <<>>)

\* lines 41-93: the XhsNote built from one collected dictionary
XhsNote(raw_note) ==
    [note_id |-> _first_str(raw_note, <<"note_id", "id", "noteId", "nid">>),
     title |-> _first_str(raw_note, <<"title", "note_title", "name">>),
     description |-> _first_str(raw_note,
                        <<"desc", "description", "note_desc", "content", "text">>),
     author |-> _first_str(raw_note,
                        <<"user_name", "user_nickname", "author", "nickname">>),
     url |-> _first_str(raw_note, <<"note_url", "url", "share_link", "link">>),
     image_texts |-> _collect_text_fragments(raw_note),
     raw |-> raw_note]

\* extract_notes: one XhsNote per collected dictionary with a note id
extract_notes(payload) ==
    LET note_dicts == _collect_note_dicts(payload)
        kept == SelectSeq(note_dicts,
                    LAMBDA raw_note : Truthy(_first_str(raw_note,
                                          <<"note_id", "id", "noteId", "nid">>)))
    IN  [i \in 1..Len(kept) |-> XhsNote(kept[i])]

-----------------------------------------------------------------------------
(* src/xhs_alpha_picks/llm_agent.py: the shape adapters and the walker *)

EmptyDict == Map(<<>>)
EmptyStr == Str(<<>>)
Zero == Str(<<"0">>)

\* a == b on Python values
PyEq(a, b) == a.t = b.t /\ a.v = b.v

\* _convert_feed_to_note: None, the note dictionary, or the AttributeError of
\* calling .get on a nested value that is not a dict
_convert_feed_to_note(feed) ==
    IF ~IsDict(feed) THEN Null
    ELSE
    LET note_id == Or(Get(feed, "id"),
                      Or(Get(feed, "note_id"), GetD(feed, "noteId", EmptyStr)))
        note_card == GetD(feed, "noteCard", EmptyDict)
    IN
    IF ~Truthy(note_id) THEN Null
    ELSE IF ~IsDict(note_card) THEN Raise("AttributeError")
    ELSE
    LET user == GetD(note_card, "user", EmptyDict)
        interact_info == GetD(note_card, "interactInfo", EmptyDict)
        cover == GetD(note_card, "cover", EmptyDict)
    IN
    IF ~IsDict(user) \/ ~IsDict(interact_info) \/ ~IsDict(cover)
    THEN Raise("AttributeError")
    ELSE
    LET time_info == Or(Get(feed, "time"),
                        Or(Get(note_card, "time"), Get(feed, "timestamp")))
    IN
    Map(<< <<"note_id", note_id>>,
           <<"title", Or(Get(note_card, "displayTitle"), Get(note_card, "title"))>>,
           <<"type", GetD(note_card, "type", Str(<<"normal">>))>>,
           <<"user_nickname", Or(Get(user, "nickname"), Get(user, "nickName"))>>,
           <<"user_id", Get(user, "userId")>>,
           <<"liked_count", GetD(interact_info, "likedCount", Zero)>>,
           <<"comment_count", GetD(interact_info, "commentCount", Zero)>>,
           <<"shared_count", GetD(interact_info, "sharedCount", Zero)>>,
           <<"cover_url", Or(Get(cover, "urlDefault"), Get(cover, "url"))>>,
           <<"model_type", Get(feed, "modelType")>>,
           <<"xsec_token", Get(feed, "xsecToken")>> >>
        \o (IF Truthy(time_info) THEN << <<"time", time_info>> >> ELSE <<>>)
        \o << <<"raw", feed>> >>)

\* lines 443-449: the texts one infoList-like list contributes
RECURSIVE _ocr_list_texts(_)
_ocr_list_texts(items) ==
    IF items = <<>> THEN <<>>
    ELSE LET item == Head(items)
             text == IF IsDict(item)
                     THEN Or(Get(item, "text"), Get(item, "ocr_text"))
                     ELSE Null
         IN  (IF IsDict(item)
              THEN (IF Truthy(text) /\ IsStr(text) THEN <<strip(text.v)>> ELSE <<>>)
              ELSE IF IsStr(item) THEN <<strip(item.v)>>
              ELSE <<>>)
                 \o _ocr_list_texts(Tail(items))

\* lines 431-449: the texts of the images, in order
RECURSIVE _image_texts(_)
_image_texts(images) ==
    IF images = <<>> THEN <<>>
    ELSE LET img == Head(images)
             ocr_text == IF IsDict(img)
                         THEN Or(Get(img, "ocr_text"),
                                 Or(Get(img, "image_text"),
                                    Or(Get(img, "text"),
                                       GetD(img, "infoList", List(<<>>)))))
                         ELSE Null
         IN  (IF IsStr(ocr_text) /\ strip(ocr_text.v) # <<>> THEN <<strip(ocr_text.v)>>
              ELSE IF IsList(ocr_text) THEN _ocr_list_texts(ocr_text.v)
              ELSE <<>>)
                 \o _image_texts(Tail(images))

\* "for img in images": a list gives its items, a str or a dict gives items
\* that are no dicts, anything else is not iterable
_iter(images) ==
    IF IsList(images) THEN images.v
    ELSE IF IsStr(images) THEN [i \in 1..Len(images.v) |-> Str(<<images.v[i]>>)]
    ELSE IF IsDict(images) THEN [i \in 1..Len(images.v) |-> Str(<<images.v[i][1]>>)]
    ELSE <<>>

Iterable(j) == IsList(j) \/ IsStr(j) \/ IsDict(j)

\* _convert_detail_to_note: None, the note dictionary, or the exception raised
_convert_detail_to_note(detail) ==
    IF ~IsDict(detail) THEN Null
    ELSE
    LET top_id == Or(Get(detail, "note_id"), Or(Get(detail, "id"), Get(detail, "noteId")))
        nested == Or(GetD(detail, "note_detail", EmptyDict), EmptyDict)
    IN
    IF ~Truthy(top_id) /\ ~IsDict(nested) THEN Raise("AttributeError")
    ELSE
    LET note_id == IF Truthy(top_id) THEN top_id
                   ELSE Or(Get(nested, "note_id"), Or(Get(nested, "id"), EmptyStr))
        given == GetD(detail, "note_detail", detail)
        note_detail == IF IsDict(given) THEN given ELSE detail
    IN
    IF ~Truthy(note_id) THEN Null
    ELSE
    LET user == GetD(note_detail, "user", EmptyDict)
        images == GetD(note_detail, "images", List(<<>>))
        interact_info == GetD(note_detail, "interact_info",
                              GetD(note_detail, "interactInfo", EmptyDict))
    IN
    IF ~IsDict(user) THEN Raise("AttributeError")
    ELSE IF ~Iterable(images) THEN Raise("TypeError")
    ELSE IF ~IsDict(interact_info) THEN Raise("AttributeError")
    ELSE
    LET time_info == Or(Get(note_detail, "time"),
                     Or(Get(note_detail, "timestamp"),
                     Or(Get(note_detail, "create_time"),
                     Or(Get(note_detail, "publish_time"),
                        Get(note_detail, "created_at")))))
        image_texts == _image_texts(_iter(images))
    IN
    Map(<< <<"note_id", note_id>>,
           <<"title", Or(Get(note_detail, "title"),
                      Or(Get(note_detail, "display_title"),
                      Or(Get(note_detail, "displayTitle"),
                         Get(note_detail, "note_title"))))>>,
           <<"description", Or(Get(note_detail, "desc"),
                            Or(Get(note_detail, "description"),
                            Or(Get(note_detail, "note_desc"),
                               Get(note_detail, "content"))))>>,
           <<"user_nickname", Or(Get(user, "nickname"), Get(user, "nickName"))>>,
           <<"user_id", Or(Get(user, "userId"), Get(user, "user_id"))>> >>
        \o (IF Truthy(time_info) THEN << <<"time", time_info>> >> ELSE <<>>)
        \o (IF image_texts # <<>>
            THEN << <<"image_texts", List([i \in 1..Len(image_texts) |->
                                              Str(image_texts[i])])>>,
                    <<"ocr_text", Str(join(<<"\n", "\n">>, image_texts))>> >>
            ELSE <<>>)
        \o << <<"url", Or(Get(note_detail, "url"),
                       Or(Get(note_detail, "note_url"),
                       Or(Get(note_detail, "share_link"),
                          Get(note_detail, "link"))))>>,
              <<"liked_count", Or(Get(interact_info, "liked_count"),
                                  GetD(interact_info, "likedCount", Zero))>>,
              <<"comment_count", Or(Get(interact_info, "comment_count"),
                                    GetD(interact_info, "commentCount", Zero))>>,
              <<"shared_count", Or(Get(interact_info, "shared_count"),
                                   GetD(interact_info, "sharedCount", Zero))>>,
              <<"raw", detail>> >>)

\* lines 246-250 and 314-317: the notes of a "feeds" value, as List(notes), or
\* the exception raised (a value that is not iterable raises TypeError)
RECURSIVE _feeds_to_notes(_)
_feeds_to_notes(feeds) ==
    IF feeds = <<>> THEN List(<<>>)
    ELSE LET note == _convert_feed_to_note(Head(feeds))
             rest == _feeds_to_notes(Tail(feeds))
         IN  IF IsRaise(note) THEN note
             ELSE IF IsRaise(rest) THEN rest
             ELSE IF Truthy(note) THEN List(<<note>> \o rest.v)
             ELSE rest

RECURSIVE _extract_notes_from_payload(_)
RECURSIVE _extract_notes_from_each(_)

\* the loops "for value in data.values()" / "for item in data"
_extract_notes_from_each(items) ==
    IF items = <<>> THEN List(<<>>)
    ELSE LET first == _extract_notes_from_payload(Head(items))
             rest == _extract_notes_from_each(Tail(items))
         IN  IF IsRaise(first) THEN first
             ELSE IF IsRaise(rest) THEN rest
             ELSE List(first.v \o rest.v)

\* _extract_notes_from_payload: List(notes), or the exception raised
_extract_notes_from_payload(data) ==
    IF IsDict(data)
    THEN IF Has(data, "note_id") \/ Has(data, "id") \/ Has(data, "noteId")
         THEN List(<<data>>)
         ELSE IF Has(data, "feeds")
              THEN IF Iterable(Get(data, "feeds"))
                   THEN _feeds_to_notes(_iter(Get(data, "feeds")))
                   ELSE Raise("TypeError")
              ELSE _extract_notes_from_each(Values(data))
    ELSE IF IsList(data)
         THEN _extract_notes_from_each(data.v)
         ELSE List(<<>>)

-----------------------------------------------------------------------------
(* src/xhs_alpha_picks/llm_agent.py: search_keyword, lines 223-270 *)

\* a text chunk is a str: json.loads gives its value, or fails to decode it
NotJson == [t |-> "text", v |-> <<>>]
Decodes(text_chunk) == text_chunk.t # "text"

\* lines 257-261: the index of the first note with the detail's note_id, 0 if none
existing_idx(notes, note) ==
    LET hits == {idx \in 1..Len(notes) :
                    PyEq(Get(notes[idx], "note_id"), Get(note, "note_id"))}
    IN  IF hits = {} THEN 0 ELSE CHOOSE idx \in hits : \A other \in hits : idx <= other

\* lines 262-266: merge the detail into the existing note, or append it
_merge_detail(notes, note) ==
    IF existing_idx(notes, note) # 0
    THEN [notes EXCEPT ![existing_idx(notes, note)] = Update(@, note)]
    ELSE Append(notes, note)

\* raw_notes.extend(got), unless got is a raised exception
_extend(notes, got) == IF IsRaise(got) THEN got ELSE List(notes \o got.v)

\* lines 269-270: a TypeError ends the chunk and leaves raw_notes as it was
_except_type_error(notes, got) ==
    IF IsRaise(got) /\ got.v = "TypeError" THEN List(notes) ELSE got

\* lines 254-266: what the detail adapter returned, merged or appended
_merged(notes, note) ==
    IF IsRaise(note) THEN note
    ELSE IF Truthy(note) THEN List(_merge_detail(notes, note))
    ELSE List(notes)

\* lines 240-270: one text chunk; List(raw_notes), or the exception that escapes
_extract_text_chunk(notes, text_chunk) ==
    IF ~Decodes(text_chunk) THEN List(notes)
    ELSE
    LET data == text_chunk IN
    IF IsDict(data) /\ Has(data, "feeds")
    THEN IF ~Iterable(Get(data, "feeds")) THEN List(notes)
         ELSE _extend(notes, _feeds_to_notes(_iter(Get(data, "feeds"))))
    ELSE IF IsDict(data) /\ (Has(data, "note_detail") \/ Has(data, "note_id")
                                \/ Has(data, "id"))
    THEN _except_type_error(notes, _merged(notes, _convert_detail_to_note(data)))
    ELSE _except_type_error(notes, _extend(notes, _extract_notes_from_payload(data)))

RECURSIVE _extract_text(_, _)

\* the chunks of text, from raw_notes as got holds it, unless got is an exception
_extract_text_after(got, text) ==
    IF IsRaise(got) THEN got ELSE _extract_text(got.v, text)

\* lines 238-270: the text chunks of one payload
_extract_text(notes, text) ==
    IF text = <<>> THEN List(notes)
    ELSE _extract_text_after(_extract_text_chunk(notes, Head(text)), Tail(text))

\* lines 225-270: one payload
_extract_payload(notes, payload) ==
    _extract_text_after(
        _extend(notes, IF Truthy(payload.structured_content)
                       THEN _extract_notes_from_payload(payload.structured_content)
                       ELSE List(<<>>)),
        payload.text)

RECURSIVE _extract_raw_notes(_, _)

\* the payloads, from raw_notes as got holds it, unless got is an exception
_extract_raw_notes_after(got, payloads) ==
    IF IsRaise(got) THEN got ELSE _extract_raw_notes(got.v, payloads)

\* lines 224-270: raw_notes of all the payloads; List(raw_notes) or the exception
_extract_raw_notes(notes, payloads) ==
    IF payloads = <<>> THEN List(notes)
    ELSE _extract_raw_notes_after(_extract_payload(notes, Head(payloads)), Tail(payloads))

-----------------------------------------------------------------------------
(* src/xhs_alpha_picks/note_processor.py: the text extractors *)

\* "sub in key_lower" over the lower-cased key names the model uses
_contains(key_lower, sub) ==
    CASE sub = "ocr" -> key_lower \in {"ocr", "ocr_text", "ocr_texts", "imageocr"}
      [] sub = "image_text" -> key_lower \in {"image_text", "image_texts"}
      [] sub = "img_text" -> key_lower \in {"img_text"}
      [] OTHER -> FALSE

\* line 100: any(ocr_key in key_lower for ocr_key in [...])
_is_ocr_key(key) ==
    \E ocr_key \in {"ocr", "image_text", "img_text"} : _contains(lower(key), ocr_key)

\* _add_ocr without the "not in seen" test
_add_ocr_unseen_unchecked(ocr_texts, value) == Append(ocr_texts, strip(value.v))

\* lines 101-105 / 108-112: add a non-blank str, trimmed, unless already seen
_add_ocr(ocr_texts, value) ==
    IF strip(value.v) \notin SeqToSet(ocr_texts)
    THEN Append(ocr_texts, strip(value.v))
    ELSE ocr_texts

RECURSIVE _collect_ocr(_, _)
RECURSIVE _collect_ocr_items(_, _)
RECURSIVE _collect_ocr_list(_, _)
RECURSIVE _collect_ocr_each(_, _)

\* lines 107-114: the items of a list found under an OCR-like key
_collect_ocr_list(ocr_texts, items) ==
    IF items = <<>> THEN ocr_texts
    ELSE LET item == Head(items)
         IN  _collect_ocr_list(
                 IF IsStr(item) /\ strip(item.v) # <<>> THEN _add_ocr(ocr_texts, item)
                 ELSE IF IsDict(item) THEN _collect_ocr(ocr_texts, item)
                 ELSE ocr_texts,
                 Tail(items))

\* lines 98-116: the items of a dict, in key order
_collect_ocr_items(ocr_texts, pairs) ==
    IF pairs = <<>> THEN ocr_texts
    ELSE LET key == Head(pairs)[1]
             value == Head(pairs)[2]
         IN  _collect_ocr_items(
                 IF _is_ocr_key(key)
                 THEN (IF IsStr(value) /\ strip(value.v) # <<>>
                       THEN _add_ocr(ocr_texts, value)
                       ELSE IF IsList(value) THEN _collect_ocr_list(ocr_texts, value.v)
                       ELSE ocr_texts)
                 ELSE _collect_ocr(ocr_texts, value),
                 Tail(pairs))

\* lines 118-119: the items of a list
_collect_ocr_each(ocr_texts, items) ==
    IF items = <<>> THEN ocr_texts
    ELSE _collect_ocr_each(_collect_ocr(ocr_texts, Head(items)), Tail(items))

\* _collect_ocr: ocr_texts after visiting data (seen is the set of its entries)
_collect_ocr(ocr_texts, data) ==
    IF IsDict(data) THEN _collect_ocr_items(ocr_texts, data.v)
    ELSE IF IsList(data) THEN _collect_ocr_each(ocr_texts, data.v)
    ELSE ocr_texts

\* the ocr_texts list extract_ocr_text joins
ocr_texts_of(note) == _collect_ocr(<<>>, note)

extract_ocr_text(note) == join(<<"\n", "\n">>, ocr_texts_of(note))

\* lines 131-135 / 138-142: the first key with a non-blank str value, trimmed
RECURSIVE _first_stripped(_, _)
_first_stripped(note, keys) ==
    IF keys = <<>> THEN <<>>
    ELSE IF IsStr(Get(note, Head(keys))) /\ strip(Get(note, Head(keys)).v) # <<>>
         THEN <<strip(Get(note, Head(keys)).v)>>
         ELSE _first_stripped(note, Tail(keys))

text_keys == <<"desc", "description", "content", "text", "note_desc", "title">>

\* the texts list extract_post_text joins: the title part, then the body part
post_title_part(note) == _first_stripped(note, <<"title", "note_title", "name">>)
post_body_part(note) == _first_stripped(note, text_keys)

extract_post_text(note) == join(<<"\n">>, post_title_part(note) \o post_body_part(note))

-----------------------------------------------------------------------------
(* src/xhs_alpha_picks/note_processor.py: dates                                *)
(*                                                                           *)
(* A text is a sequence of tokens: single characters, and for the shapes the *)
(* regular expressions and strptime look for, one token per literal (a date  *)
(* "2025-10-31", a time of day "00:00:01", ...). Days are counted from       *)
(* 2025-10-26 (day 0); a datetime is [t |-> "datetime", v |-> <<day, sec>>]. *)
(* Timestamps count seconds from day 0, so that milliseconds fit the         *)
(* integers of TLC; the thresholds of fromtimestamp are scaled with them.    *)

SecondsPerDay == 86400
MsThreshold == 1000000      \* 1e12 of line 69, at the model's scale
YearLimit == 600000         \* first timestamp beyond year 9999: ValueError
TimeTLimit == 2000000       \* first timestamp beyond time_t: OverflowError

DateTime(day, sec) == [t |-> "datetime", v |-> <<day, sec>>]
IsDateTime(j) == j.t = "datetime"

\* .replace(hour=0, minute=0, second=0, microsecond=0)
Midnight(d) == DateTime(d.v[1], 0)

\* d - timedelta(days=n)
MinusDays(d, n) == DateTime(d.v[1] - n, d.v[2])

\* the tokens the pattern \d{4}[-/]\d{2}[-/]\d{2} matches
DateShaped ==
    {"2025-10-26", "2025-10-27", "2025-10-28", "2025-10-29", "2025-10-30",
     "2025-10-31", "2025-11-01", "2025/10/30", "2025/10/31", "2025-13-45"}

\* .replace("/", "-") on a date-shaped token
Dashed(tok) ==
    CASE tok = "2025/10/30" -> "2025-10-30"
      [] tok = "2025/10/31" -> "2025-10-31"
      [] OTHER -> tok

\* the day strptime(tok, "%Y-%m-%d") gives; -1 stands for its ValueError
DayOfLiteral(tok) ==
    CASE tok = "2025-10-26" -> 0
      [] tok = "2025-10-27" -> 1
      [] tok = "2025-10-28" -> 2
      [] tok = "2025-10-29" -> 3
      [] tok = "2025-10-30" -> 4
      [] tok = "2025-10-31" -> 5
      [] tok = "2025-11-01" -> 6
      [] OTHER -> -1

\* the second strptime(tok, "%H:%M:%S") gives; -1 stands for its ValueError
SecOfLiteral(tok) ==
    CASE tok = "00:00:00" -> 0
      [] tok = "00:00:01" -> 1
      [] tok = "23:59:59" -> SecondsPerDay - 1
      [] OTHER -> -1

\* len() of a token
TokLen(tok) ==
    CASE tok \in DateShaped -> 10
      [] tok \in {"2025.10.31", "31-10-2025"} -> 10
      [] tok \in {"00:00:00", "00:00:01", "23:59:59"} -> 8
      [] tok = "seeking alpha" -> 13
      [] tok = "Alpha Picks" -> 11
      [] tok = "alpha picks" -> 11
      [] tok \in {"AAPL", "TSLA", "MSFT", "aapl", "tsla", "msft"} -> 4
      [] tok \in {"1.", "2.", "3."} -> 2
      [] tok \in {"10<yue>31<ri>"} -> 6
      [] tok \in {"3<ge>", "5<zhi>", "2<zhi1>"} -> 2
      [] tok \in {"<di><san><zhi>", "<di>3<ge>"} -> 3
      [] tok = "<filler of 60>" -> 60
      [] tok = "<filler of 210>" -> 210
      [] OTHER -> 1

RECURSIVE StrLen(_)
StrLen(s) == IF s = <<>> THEN 0 ELSE TokLen(Head(s)) + StrLen(Tail(s))

\* value[:n], for a cut that falls between tokens
RECURSIVE Prefix(_, _)
Prefix(s, n) ==
    IF s = <<>> \/ TokLen(Head(s)) > n THEN <<>>
    ELSE <<Head(s)>> \o Prefix(Tail(s), n - TokLen(Head(s)))

\* lines 80-84: strptime over the three formats; None when none fits
_strptime_formats(s) ==
    IF Len(s) = 3 /\ s[2] = "T" /\ DayOfLiteral(s[1]) >= 0 /\ SecOfLiteral(s[3]) >= 0
    THEN DateTime(DayOfLiteral(s[1]), SecOfLiteral(s[3]))
    ELSE IF Len(s) = 3 /\ s[2] = " " /\ DayOfLiteral(s[1]) >= 0 /\ SecOfLiteral(s[3]) >= 0
    THEN DateTime(DayOfLiteral(s[1]), SecOfLiteral(s[3]))
    ELSE IF Len(s) = 1 /\ DayOfLiteral(s[1]) >= 0
    THEN DateTime(DayOfLiteral(s[1]), 0)
    ELSE Null

\* datetime.fromtimestamp: the datetime, or the exception it raises
_fromtimestamp(seconds) ==
    IF seconds >= TimeTLimit \/ seconds <= -TimeTLimit THEN Raise("OverflowError")
    ELSE IF seconds >= YearLimit \/ seconds <= -YearLimit THEN Raise("ValueError")
    ELSE DateTime(seconds \div SecondsPerDay, seconds % SecondsPerDay)

date_keys ==
    <<"time", "timestamp", "publish_time", "create_time", "update_time", "date",
      "publish_date", "created_at", "updated_at">>

\* lines 60-88: the loop over date_keys from position i on
RECURSIVE _extract_date_from(_, _)
_extract_date_from(note, i) ==
    IF i > Len(date_keys) THEN Null
    ELSE
    LET value == Get(note, date_keys[i]) IN
    IF ~Truthy(value) THEN _extract_date_from(note, i + 1)
    ELSE IF value.t = "num"
    THEN LET got == IF value.v > MsThreshold
                    THEN _fromtimestamp(value.v \div 1000)
                    ELSE _fromtimestamp(value.v)
         IN  IF IsRaise(got) /\ got.v = "ValueError"
             THEN _extract_date_from(note, i + 1)
             ELSE got
    ELSE IF IsStr(value) /\ _strptime_formats(Prefix(value.v, 19)) # Null
    THEN _strptime_formats(Prefix(value.v, 19))
    ELSE _extract_date_from(note, i + 1)

\* extract_date_from_note: a datetime, None, or the exception that escapes
extract_date_from_note(note) == _extract_date_from(note, 1)

RECURSIVE repr(_)
RECURSIVE _repr_items(_)
RECURSIVE _repr_pairs(_)

\* the reprs of the items of a list, separated by ", "
_repr_items(items) ==
    IF items = <<>> THEN <<>>
    ELSE repr(Head(items)) \o
         (IF Len(items) > 1 THEN <<",", " ">> ELSE <<>>) \o _repr_items(Tail(items))

\* the reprs of the items of a dict, separated by ", "
_repr_pairs(pairs) ==
    IF pairs = <<>> THEN <<>>
    ELSE <<"'", Head(pairs)[1], "'", ":", " ">> \o repr(Head(pairs)[2]) \o
         (IF Len(pairs) > 1 THEN <<",", " ">> ELSE <<>>) \o _repr_pairs(Tail(pairs))

\* repr(x) of a value
repr(j) ==
    CASE j.t = "str" -> <<"'">> \o j.v \o <<"'">>
      [] j.t = "num" -> <<ToString(j.v)>>
      [] j.t = "null" -> <<"None">>
      [] j.t = "list" -> <<"[">> \o _repr_items(j.v) \o <<"]">>
      [] j.t = "map" -> <<"{">> \o _repr_pairs(j.v) \o <<"}">>

\* str(x) of a value
str(j) == IF IsStr(j) THEN j.v ELSE repr(j)

\* re.search(r"(\d{4}[-/]\d{2}[-/]\d{2})", text): group(1) of the first match,
\* as a one-token text; empty when nothing matches
RECURSIVE _search_date(_)
_search_date(text) ==
    IF text = <<>> THEN <<>>
    ELSE IF Head(text) \in DateShaped THEN <<Head(text)>>
    ELSE _search_date(Tail(text))

\* lines 305-316 (and 269-279): the date written in title and desc, at midnight
_selection_date_from_text(raw_note) ==
    LET title == Or(Get(raw_note, "title"), EmptyStr)
        desc == Or(Get(raw_note, "desc"), EmptyStr)
        post_text == str(title) \o <<" ">> \o str(desc)
        date_match == _search_date(post_text)
    IN  IF date_match # <<>> /\ DayOfLiteral(Dashed(date_match[1])) >= 0
        THEN DateTime(DayOfLiteral(Dashed(date_match[1])), 0)
        ELSE Null

-----------------------------------------------------------------------------
(* src/xhs_alpha_picks/note_processor.py: check_alpha_picks_quality            *)
(*                                                                           *)
(* A score is written in thousandths; a last digit 1 or 9 is the binary      *)
(* floating-point number next above or below the decimal value (701 is       *)
(* 0.7000000000000001, 799 is 0.7999999999999999).                           *)

\* x + w as IEEE-754 doubles give it, for the sums the scorer forms
FloatAdd(x, w) ==
    CASE x = 200 /\ w = 100 -> 301
      [] x = 400 /\ w = 200 -> 601
      [] x = 700 /\ w = 100 -> 799
      [] x = 700 /\ w = 200 -> 899
      [] OTHER -> x + w

\* one token of s.lower()
TokLower(tok) ==
    CASE tok = "AAPL" -> "aapl"
      [] tok = "TSLA" -> "tsla"
      [] tok = "MSFT" -> "msft"
      [] tok = "Alpha Picks" -> "alpha picks"
      [] tok = "T" -> "t"
      [] OTHER -> tok

\* s.lower()
Lower(s) == [i \in 1..Len(s) |-> TokLower(s[i])]

\* [A-Z]{2,5} matches the token
UpperSymbol(tok) == tok \in {"AAPL", "TSLA", "MSFT"}

\* line 163-166: a term of the list occurs in the text
_has_seeking_alpha(text) ==
    \E i \in 1..Len(text) : text[i] \in {"seeking alpha", "alpha picks"}

\* position of the first token at or after i that is no white space or, with
\* commas, no comma (Len + 1 when there is none)
RECURSIVE _skip(_, _, _)
_skip(text, i, commas) ==
    IF i > Len(text) THEN i
    ELSE IF text[i] \in Whitespace \/ (commas /\ text[i] = ",") THEN _skip(text, i + 1, commas)
    ELSE i

\* \d+[\.\)]\s*[A-Z]{2,5} matches at token i
_numbered_symbol_at(text, i) ==
    /\ text[i] \in {"1.", "2.", "3."}
    /\ _skip(text, i + 1, FALSE) <= Len(text)
    /\ UpperSymbol(text[_skip(text, i + 1, FALSE)])

\* [A-Z]{2,5}[\s,]+[A-Z]{2,5} matches at token i
_symbol_pair_at(text, i) ==
    /\ UpperSymbol(text[i])
    /\ _skip(text, i + 1, TRUE) > i + 1
    /\ _skip(text, i + 1, TRUE) <= Len(text)
    /\ UpperSymbol(text[_skip(text, i + 1, TRUE)])

\* int(match) of (\d+)[...] inside the token, 0 when the pattern does not match it
CounterOf(tok) ==
    CASE tok = "3<ge>" -> 3
      [] tok = "5<zhi>" -> 5
      [] tok = "2<zhi1>" -> 2
      [] tok = "<di>3<ge>" -> 3
      [] OTHER -> 0

Max(x, y) == IF x >= y THEN x ELSE y

\* lines 182-195: the running maximum over the patterns and their matches
RECURSIVE _selection_count_from(_, _)
_selection_count_from(text, i) ==
    IF i > Len(text) THEN 0
    ELSE IF _symbol_pair_at(text, i)
    THEN Max(2, _selection_count_from(text, _skip(text, i + 1, TRUE) + 1))
    ELSE Max(Max(IF _numbered_symbol_at(text, i) THEN 1 ELSE 0, CounterOf(text[i])),
             _selection_count_from(text, i + 1))

_selection_count(text) == _selection_count_from(text, 1)

\* lines 207-214: one of the date patterns matches
_has_date(text) ==
    \E i \in 1..Len(text) :
        text[i] \in DateShaped \cup {"31-10-2025", "2025.10.31", "10<yue>31<ri>"}

\* the quality notes of lines 167-229, one per signal
_quality_notes(has_seeking_alpha, selection_count, has_date, has_substantial_content) ==
    << IF has_seeking_alpha THEN "References Seeking Alpha/Alpha Picks"
       ELSE "Missing Seeking Alpha reference",
       IF selection_count >= 3
       THEN "Contains " \o ToString(selection_count) \o "+ selections"
       ELSE IF selection_count >= 1
       THEN "Contains " \o ToString(selection_count) \o " selection(s) - low quality"
       ELSE "No clear multiple selections found",
       IF has_date THEN "Contains selection date" ELSE "Missing selection date",
       IF has_substantial_content THEN "Has substantial content"
       ELSE "Content may be incomplete" >>

\* _scored with line 232 as "score >= 0.7" alone
_scored_on_score_alone(has_seeking_alpha, selection_count, has_date, has_substantial_content) ==
    LET s1 == IF has_seeking_alpha THEN FloatAdd(0, 300) ELSE 0
        s2 == IF selection_count >= 3 THEN FloatAdd(s1, 400)
              ELSE IF selection_count >= 1 THEN FloatAdd(s1, 200)
              ELSE s1
        s3 == IF has_date THEN FloatAdd(s2, 200) ELSE s2
        score == IF has_substantial_content THEN FloatAdd(s3, 100) ELSE s3
    IN  <<score >= 700, score,
          _quality_notes(has_seeking_alpha, selection_count, has_date,
                         has_substantial_content)>>

\* _scored with one or two selections weighing as much as three
_scored_low_count_as_full(has_seeking_alpha, selection_count, has_date, has_substantial_content) ==
    LET s1 == IF has_seeking_alpha THEN FloatAdd(0, 300) ELSE 0
        s2 == IF selection_count >= 1 THEN FloatAdd(s1, 400) ELSE s1
        s3 == IF has_date THEN FloatAdd(s2, 200) ELSE s2
        score == IF has_substantial_content THEN FloatAdd(s3, 100) ELSE s3
    IN  <<score >= 700 /\ selection_count >= 3, score,
          _quality_notes(has_seeking_alpha, selection_count, has_date,
                         has_substantial_content)>>

\* lines 167-234: the score summed signal by signal, the classification of
\* line 232 and the quality notes
_scored(has_seeking_alpha, selection_count, has_date, has_substantial_content) ==
    LET s1 == IF has_seeking_alpha THEN FloatAdd(0, 300) ELSE 0
        s2 == IF selection_count >= 3 THEN FloatAdd(s1, 400)
              ELSE IF selection_count >= 1 THEN FloatAdd(s1, 200)
              ELSE s1
        s3 == IF has_date THEN FloatAdd(s2, 200) ELSE s2
        score == IF has_substantial_content THEN FloatAdd(s3, 100) ELSE s3
    IN  <<score >= 700 /\ selection_count >= 3, score,
          _quality_notes(has_seeking_alpha, selection_count, has_date,
                         has_substantial_content)>>

\* check_alpha_picks_quality: <<is_high_quality, score, quality_notes>>
check_alpha_picks_quality(note) ==
    LET post_text == IF Truthy(note.post_text) THEN note.post_text.v ELSE <<>>
        ocr_text == IF Truthy(note.ocr_text) THEN note.ocr_text.v ELSE <<>>
        combined_text == Lower(post_text) \o <<" ">> \o Lower(ocr_text)
    IN  _scored(_has_seeking_alpha(combined_text),
                _selection_count(combined_text),
                _has_date(combined_text) \/ Truthy(note.selection_date),
                \/ StrLen(post_text) > 50 /\ StrLen(ocr_text) > 50
                \/ StrLen(combined_text) > 200)

-----------------------------------------------------------------------------
(* src/xhs_alpha_picks/note_processor.py: process_notes *)

\* the date token strftime("%Y-%m-%d") writes for a day
DayLiteral(day) ==
    CASE day = 0 -> "2025-10-26"
      [] day = 1 -> "2025-10-27"
      [] day = 2 -> "2025-10-28"
      [] day = 3 -> "2025-10-29"
      [] day = 4 -> "2025-10-30"
      [] day = 5 -> "2025-10-31"
      [] day = 6 -> "2025-11-01"
      [] OTHER -> "yyyy-mm-dd"

\* the time token strftime("%H:%M:%S") writes for a second of the day
SecLiteral(sec) ==
    CASE sec = 0 -> "00:00:00"
      [] sec = 1 -> "00:00:01"
      [] sec = SecondsPerDay - 1 -> "23:59:59"
      [] OTHER -> "hh:mm:ss"

\* line 348: note_date.strftime("%Y-%m-%d %H:%M:%S")
strftime(d) == Str(<<DayLiteral(d.v[1]), " ", SecLiteral(d.v[2])>>)

\* the rank of a publish_time string in the order of str: "" is least, and
\* strings of the format of line 348 are ordered as their instants are
StrRank(s) ==
    IF s = <<>> THEN -1 ELSE DayOfLiteral(s[1]) * SecondsPerDay + SecOfLiteral(s[3])

\* seq[:n] that keeps the whole list
_slice_whole(seq, n) == seq

\* seq[:n]
Slice(seq, n) ==
    IF n >= 0 THEN SubSeq(seq, 1, IF n < Len(seq) THEN n ELSE Len(seq))
    ELSE SubSeq(seq, 1, IF Len(seq) + n > 0 THEN Len(seq) + n ELSE 0)

\* lines 265-280: all_dates of the first pass, or the exception that escapes
RECURSIVE _all_dates(_, _)
_all_dates(all_dates, raws) ==
    IF raws = <<>> THEN List(all_dates)
    ELSE
    LET raw_note == Head(raws) IN
    IF ~IsDict(raw_note) THEN Raise("AttributeError")
    ELSE
    LET note_date == extract_date_from_note(raw_note)
        parsed_date == _selection_date_from_text(raw_note)
    IN  IF IsRaise(note_date) THEN note_date
        ELSE IF ~IsDateTime(note_date) THEN _all_dates(all_dates, Tail(raws))
        ELSE _all_dates(
                 all_dates \o (IF parsed_date # Null THEN <<parsed_date>> ELSE <<>>)
                           \o <<Midnight(note_date)>>,
                 Tail(raws))

\* max(all_dates)
_max_date(all_dates) ==
    CHOOSE d \in SeqToSet(all_dates) :
        \A e \in SeqToSet(all_dates) :
            e.v[1] < d.v[1] \/ (e.v[1] = d.v[1] /\ e.v[2] <= d.v[2])

\* lines 259-291: <<cutoff_date, target_date>>, or the exception that escapes
_cutoff_and_target(raws, days_filter, filter_today, filter_latest_date, today) ==
    IF filter_today THEN List(<<today, today>>)
    ELSE IF filter_latest_date
    THEN LET all_dates == _all_dates(<<>>, raws)
         IN  IF IsRaise(all_dates) THEN all_dates
             ELSE IF all_dates.v # <<>>
             THEN List(<<_max_date(all_dates.v), _max_date(all_dates.v)>>)
             ELSE List(<<MinusDays(today, days_filter), today>>)
    ELSE List(<<MinusDays(today, days_filter), Null>>)

\* lines 322-336: the date filter lets the note through
_passes_date_filter(effective_date, cutoff_date, filter_today, filter_latest_date) ==
    IF Truthy(effective_date)
    THEN IF filter_today \/ filter_latest_date
         THEN Midnight(effective_date) = Midnight(cutoff_date)
         ELSE Midnight(effective_date).v[1] >= Midnight(cutoff_date).v[1]
    ELSE ~(filter_today \/ filter_latest_date)

\* lines 339-367: the ProcessedNote built from a raw note that passed the filter
_processed_note(raw_note, note_id, note_date) ==
    LET post_text == extract_post_text(raw_note)
        ocr_text == extract_ocr_text(raw_note)
        combined == Lower(post_text \o <<" ">> \o ocr_text)
        date_match == _search_date(combined)
        built ==
            [note_id |-> Str(str(note_id)),
             title |-> Or(Get(raw_note, "title"),
                          Or(Get(raw_note, "note_title"), Get(raw_note, "name"))),
             post_text |-> Str(post_text),
             ocr_text |-> Str(ocr_text),
             author |-> Or(Get(raw_note, "user_nickname"),
                           Or(Get(raw_note, "user_name"), Get(raw_note, "author"))),
             url |-> Or(Get(raw_note, "note_url"),
                        Or(Get(raw_note, "url"), Get(raw_note, "share_link"))),
             selection_date |-> IF date_match # <<>> THEN Str(date_match) ELSE Null,
             publish_time |-> IF Truthy(note_date) THEN strftime(note_date) ELSE Null]
        quality == check_alpha_picks_quality(built)
    IN  [note_id |-> built.note_id, title |-> built.title,
         post_text |-> built.post_text, ocr_text |-> built.ocr_text,
         author |-> built.author, url |-> built.url,
         selection_date |-> built.selection_date,
         publish_time |-> built.publish_time,
         is_high_quality |-> quality[1], quality_score |-> quality[2],
         quality_notes |-> quality[3], raw |-> raw_note]

\* ProcessedNote.to_dict (lines 28-43)
to_dict(note) ==
    Map(<< <<"note_id", note.note_id>>,
           <<"title", Or(note.title, EmptyStr)>>,
           <<"post_text", Or(note.post_text, EmptyStr)>>,
           <<"ocr_text", Or(note.ocr_text, EmptyStr)>>,
           <<"author", Or(note.author, EmptyStr)>>,
           <<"url", Or(note.url, EmptyStr)>>,
           <<"selection_date", Or(note.selection_date, EmptyStr)>>,
           <<"publish_time", Or(note.publish_time, EmptyStr)>>,
           <<"is_high_quality", [t |-> "bool", v |-> note.is_high_quality]>>,
           <<"quality_score", [t |-> "float", v |-> note.quality_score]>>,
           <<"quality_notes",
             Str(join(<<";", " ">>,
                      [i \in 1..Len(note.quality_notes) |-> <<note.quality_notes[i]>>]))>> >>)

\* lines 295-369: the list processed, or the exception that escapes
RECURSIVE _process_each(_, _, _, _, _)
_process_each(processed, raws, cutoff_date, filter_today, filter_latest_date) ==
    IF raws = <<>> THEN List(processed)
    ELSE
    LET raw_note == Head(raws) IN
    IF ~IsDict(raw_note) THEN Raise("AttributeError")
    ELSE
    LET note_id == Or(Get(raw_note, "note_id"),
                      Or(Get(raw_note, "id"), GetD(raw_note, "noteId", EmptyStr)))
        rest == Tail(raws)
    IN  IF ~Truthy(note_id)
        THEN _process_each(processed, rest, cutoff_date, filter_today, filter_latest_date)
        ELSE
        LET note_date == extract_date_from_note(raw_note)
            effective_date == Or(_selection_date_from_text(raw_note), note_date)
        IN  IF IsRaise(note_date) THEN note_date
            ELSE IF ~_passes_date_filter(effective_date, cutoff_date,
                                         filter_today, filter_latest_date)
            THEN _process_each(processed, rest, cutoff_date,
                               filter_today, filter_latest_date)
            ELSE _process_each(Append(processed, _processed_note(raw_note, note_id, note_date)),
                               rest, cutoff_date, filter_today, filter_latest_date)

\* the sort key of line 373-377 of n is below that of m
_key_less(n, m) ==
    LET pn == StrRank(Or(n.publish_time, EmptyStr).v)
        pm == StrRank(Or(m.publish_time, EmptyStr).v)
    IN  \/ ~n.is_high_quality /\ m.is_high_quality
        \/ /\ n.is_high_quality = m.is_high_quality
           /\ \/ n.quality_score < m.quality_score
              \/ n.quality_score = m.quality_score /\ pn < pm

\* _insert_sorted for a sort without reverse=True: ascending keys
RECURSIVE _insert_sorted_ascending(_, _)
_insert_sorted_ascending(sorted, n) ==
    IF sorted = <<>> THEN <<n>>
    ELSE IF _key_less(n, Head(sorted)) THEN <<n>> \o sorted
    ELSE <<Head(sorted)>> \o _insert_sorted_ascending(Tail(sorted), n)

\* n put into a list sorted by descending key, behind the entries that are
\* not below it
RECURSIVE _insert_sorted(_, _)
_insert_sorted(sorted, n) ==
    IF sorted = <<>> THEN <<n>>
    ELSE IF _key_less(Head(sorted), n) THEN <<n>> \o sorted
    ELSE <<Head(sorted)>> \o _insert_sorted(Tail(sorted), n)

\* lines 372-379: processed.sort(key=..., reverse=True); the sort is stable
RECURSIVE _sort_from(_, _)
_sort_from(sorted, rest) ==
    IF rest = <<>> THEN sorted
    ELSE _sort_from(_insert_sorted(sorted, Head(rest)), Tail(rest))

_sort(processed) == _sort_from(<<>>, processed)

\* process_notes without the else branch of lines 387-389: nothing is returned
\* when no note is high-quality
_process_notes_high_quality_only(raws, days_filter, max_results, filter_today, filter_latest_date, today) ==
    LET dates == _cutoff_and_target(raws, days_filter, filter_today,
                                    filter_latest_date, today)
    IN  IF IsRaise(dates) THEN dates
        ELSE
        LET processed == _process_each(<<>>, raws, dates.v[1],
                                       filter_today, filter_latest_date)
        IN  IF IsRaise(processed) THEN processed
            ELSE
            LET sorted == _sort(processed.v)
                high_quality == SelectSeq(sorted, LAMBDA n : n.is_high_quality)
            IN  [t |-> "tuple",
                 notes |-> Slice(high_quality, max_results),
                 target_date |-> dates.v[2]]

\* process_notes: the tuple (notes, target_date), or the exception that
\* escapes; today is datetime.now() at midnight
process_notes(raws, days_filter, max_results, filter_today, filter_latest_date, today) ==
    LET dates == _cutoff_and_target(raws, days_filter, filter_today,
                                    filter_latest_date, today)
    IN  IF IsRaise(dates) THEN dates
        ELSE
        LET processed == _process_each(<<>>, raws, dates.v[1],
                                       filter_today, filter_latest_date)
        IN  IF IsRaise(processed) THEN processed
            ELSE
            LET sorted == _sort(processed.v)
                high_quality == SelectSeq(sorted, LAMBDA n : n.is_high_quality)
            IN  [t |-> "tuple",
                 notes |-> IF high_quality # <<>> THEN Slice(high_quality, max_results)
                           ELSE Slice(sorted, max_results),
                 target_date |-> dates.v[2]]

\* lines 257-369: the list processed as it stands before the sort of line 372,
\* or the exception that escapes
_processed_list(raws, days_filter, filter_today, filter_latest_date, today) ==
    LET dates == _cutoff_and_target(raws, days_filter, filter_today,
                                    filter_latest_date, today)
    IN  IF IsRaise(dates) THEN dates
        ELSE _process_each(<<>>, raws, dates.v[1], filter_today, filter_latest_date)

-----------------------------------------------------------------------------
(* src/xhs_alpha_picks/mcp_client.py: XiaohongshuMCPClient.search_notes       *)

\* lines 103-109: the object search_notes serialises as the request body
_search_payload(keyword, limit, raw_payload) ==
    LET payload == Map(<< <<"keyword", keyword>>, <<"page", Num(1)>>,
                          <<"page_size", limit>> >>)
    IN  IF Truthy(raw_payload) THEN Update(payload, raw_payload) ELSE payload

-----------------------------------------------------------------------------
(* Inputs of the record-level functions *)

MaxStrLen == 2      \* longest OCR string drawn
MaxDepth == 2       \* deepest wrapping of a record in a drawn payload

A == Str(<<"a">>)
B == Str(<<"b">>)
Blank == Str(<<" ">>)

\* strings over a blank and a letter, up to MaxStrLen characters
RECURSIVE StrsUpTo(_)
StrsUpTo(n) ==
    IF n = 0 THEN {<<>>}
    ELSE StrsUpTo(n - 1)
             \cup {Append(s, c) : s \in StrsUpTo(n - 1), c \in {" ", "a"}}

OcrStrs == {Str(s) : s \in StrsUpTo(MaxStrLen)}

\* a record from optional fields: pairs whose value is Absent are left out
Absent == [t |-> "absent", v |-> <<>>]
Rec(pairs) == Map(SelectSeq(pairs, LAMBDA kv : kv[2] # Absent))

IdKeys == {"note_id", "id", "noteId", "nid", "ID", "NID"}
IdVals == {Null, EmptyStr, Blank, A, B, Num(7)}

\* records with one or two identifier-like keys
IdRecords ==
    {Map(<< <<k, x>>, <<"title", Str(<<"t">>)>> >>) : k \in IdKeys, x \in IdVals}
        \cup UNION {{Map(<< <<k1, x1>>, <<k2, x2>> >>) :
                        x1 \in {EmptyStr, A}, k2 \in IdKeys \ {k1}, x2 \in {Null, B}} :
                    k1 \in IdKeys}

\* records without an identifier key at the top
NoIdRecords ==
    {Map(<< <<"title", Str(<<"t">>)>> >>), EmptyDict}
        \cup {Map(<< <<"note_detail", x>>, <<"desc", Str(<<"d">>)>> >>) :
                 x \in {Null, A, Num(1), List(<<A>>), EmptyDict,
                        Map(<< <<"id", A>> >>), Map(<< <<"title", B>> >>)}}

\* records with an id and any of the author keys
AuthorRecords ==
    {Rec(<< <<"id", A>>, <<"nickname", n>>, <<"author", au>>,
            <<"user_name", un>>, <<"user_nickname", ni>> >>) :
        n \in {Absent, Str(<<"n">>)},
        au \in {Absent, Blank, Str(<<"u">>)},
        un \in {Absent, Blank, Num(1), Str(<<"x">>)},
        ni \in {Absent, Blank, Null, Str(<<"y">>)}}

\* records with an id and any of the title and body keys
BodyRecords ==
    {Rec(<< <<"note_id", A>>, <<"title", ti>>, <<"text", te>>, <<"content", co>>,
            <<"note_desc", nd>>, <<"description", de>>, <<"desc", d>> >>) :
        ti \in {Absent, Str(<<" ", "t">>)},
        te \in {Absent, Str(<<"x">>)},
        co \in {Absent, Blank, Str(<<"c", " ">>)},
        nd \in {Absent, Num(1), Str(<<"n">>)},
        de \in {Absent, Blank, Str(<<"e">>)},
        d \in {Absent, EmptyStr, Str(<<"d">>)}}

\* records whose strings sit under OCR-like keys at several depths
OcrRecords ==
    {Map(<< <<"id", A>>, <<"ocr_text", s1>>, <<"image_texts", List(<<s2, s3>>)>> >>) :
        s1 \in OcrStrs, s2 \in OcrStrs, s3 \in OcrStrs}
        \cup {Map(<< <<"id", A>>,
                     <<"images", List(<< Map(<< <<"ocr_text", s1>> >>),
                                         Map(<< <<"imageOcr", s2>> >>) >>)>>,
                     <<"texts", s3>> >>) :
                 s1 \in OcrStrs, s2 \in OcrStrs, s3 \in OcrStrs}
        \cup {Map(<< <<"id", A>>,
                     <<"raw", Map(<< <<"ocr_texts", List(<<s1, Map(<< <<"OCR", s2>> >>)>>)>>,
                                     <<"pages", List(<<List(<<Map(<< <<"img_text", s3>> >>)>>)>>)>> >>)>>,
                     <<"image_text", Map(<< <<"text", s1>>, <<"ocr_text", s3>> >>)>> >>) :
                 s1 \in OcrStrs, s2 \in OcrStrs, s3 \in OcrStrs}
        \cup {Map(<< <<"id", A>>,
                     <<"ocr", Map(<< <<"text", s1>> >>)>>,
                     <<"image_texts", List(<<List(<<s2>>), Map(<< <<"text", s3>> >>)>>)>> >>) :
                 s1 \in OcrStrs, s2 \in OcrStrs, s3 \in OcrStrs}

Leaves ==
    {Map(<< <<"id", A>> >>), Map(<< <<"note_id", B>>, <<"title", Str(<<"t">>)>> >>),
     Map(<< <<"nid", Str(<<"c">>)>> >>), Map(<< <<"k", Str(<<"v">>)>> >>)}

\* payloads that wrap records in maps and lists, up to MaxDepth deep
RECURSIVE Wrapped(_)
Wrapped(d) ==
    IF d = 0 THEN Leaves
    ELSE Wrapped(d - 1)
             \cup {Map(<< <<"data", x>> >>) : x \in Wrapped(d - 1)}
             \cup {Map(<< <<"id", Str(<<"p">>)>>, <<"child", x>> >>) : x \in Wrapped(d - 1)}
             \cup {List(<<x, y>>) : x \in Wrapped(d - 1), y \in Leaves}
             \cup {Map(<< <<"first", y>>, <<"notes", x>> >>) :
                      x \in Wrapped(d - 1), y \in Leaves}

\* what a record may hold where a nested map is expected
NotAMap == {Null, EmptyStr, Str(<<"s">>), Num(1), List(<<>>)}

\* feed-shaped and detail-shaped records with an id, whose nested values are
\* absent, maps, or something else
NestedRecords ==
    {Rec(<< <<"id", A>>, <<"title", Str(<<"t">>)>>, <<"noteCard", nc>> >>) :
        nc \in {Absent} \cup NotAMap
                 \cup {Rec(<< <<"displayTitle", B>>, <<"user", u>>,
                               <<"interactInfo", ii>>, <<"cover", co>> >>) :
                          u \in {Absent, Null, Str(<<"s">>),
                                 Map(<< <<"nickname", Str(<<"n">>)>> >>)},
                          ii \in {Absent, Num(1), Map(<< <<"likedCount", Str(<<"9">>)>> >>)},
                          co \in {Absent, Null, Map(<< <<"url", Str(<<"u">>)>> >>)}}}
        \cup {Rec(<< <<"note_id", A>>, <<"title", Str(<<"t">>)>>, <<"note_detail", nd>>,
                     <<"user", u>>, <<"interactInfo", ii>> >>) :
                 nd \in {Absent} \cup NotAMap \cup {Map(<< <<"title", B>> >>)},
                 u \in {Absent} \cup NotAMap \cup {Map(<< <<"nickname", Str(<<"n">>)>> >>)},
                 ii \in {Absent, Null, Str(<<"s">>),
                         Map(<< <<"likedCount", Str(<<"9">>)>> >>)}}

\* what a record may hold under a date key: nothing, falsy values, timestamps
\* in seconds and in milliseconds, a timestamp beyond year 9999, one beyond
\* time_t, strings that are dates and strings that are not, other types
DateVals ==
    {Absent, Null, Num(0), Num(4 * SecondsPerDay + 7), Num(MsThreshold + 1000),
     Num(YearLimit), Num(TimeTLimit * 1000),
     Str(<<"2025-10-30">>), Str(<<"2025-10-29", "T", "00:00:01">>),
     Str(<<"2025-13-45">>), Str(<<"s">>), List(<<A>>), EmptyDict}

\* records with an id and values under the first, the second and the last of
\* the date keys
DateRecords ==
    {Rec(<< <<"note_id", A>>, <<"time", t1>>, <<"timestamp", t2>>,
            <<"updated_at", t3>> >>) :
        t1 \in DateVals, t2 \in DateVals, t3 \in DateVals}

\* a well-formed record of the day before today
WellFormed == Map(<< <<"note_id", B>>, <<"title", Str(<<"t">>)>>,
                     <<"time", Str(<<"2025-10-30">>)>> >>)

\* batches of a well-formed record and a record whose first date value is of
\* any kind, in both orders
DateBatches ==
    UNION {{List(<<r, WellFormed>>), List(<<WellFormed, r>>)} :
              r \in {Rec(<< <<"note_id", id>>, <<"title", ti>>, <<"time", t1>> >>) :
                        id \in {Absent, A, Num(7)},
                        ti \in {Absent, Num(1), List(<<A>>)},
                        t1 \in DateVals}}

\* what a caller hands to search_notes as raw_payload
RawPayloads ==
    {Null, EmptyDict, Map(<< <<"extra", A>> >>),
     Map(<< <<"sort", B>>, <<"page", Num(2)>> >>)}

FnInputs ==
    RawPayloads \cup IdRecords \cup NoIdRecords \cup AuthorRecords \cup BodyRecords \cup OcrRecords
        \cup NestedRecords \cup DateRecords \cup DateBatches \cup Wrapped(MaxDepth)

-----------------------------------------------------------------------------
(* The record-level functions applied to a drawn input *)

\* datetime.now() at midnight, on the day the runs happen
Today == DateTime(5, 0)

DefaultDaysFilter == 2      \* days_filter: int = 2
DefaultMaxResults == 1      \* max_results: int = 1

Idle ==
    /\ tool_payloads = <<>>
    /\ pending = <<>>
    /\ calls_left = 0
    /\ raw_notes = <<>>
    /\ processed_notes = <<>>
    /\ target_date = Null
    /\ settings = Null

runVars == <<tool_payloads, pending, calls_left, raw_notes, processed_notes,
             target_date, settings>>

NoRet == [fn |-> "none", out |-> Null]

InitFn ==
    /\ pc = "fn_ready"
    /\ arg \in FnInputs
    /\ ret = NoRet
    /\ Idle

Apply(fn, out) ==
    /\ pc = "fn_ready"
    /\ pc' = "fn_done"
    /\ ret' = [fn |-> fn, out |-> out]
    /\ UNCHANGED <<arg, runVars>>

ExtractNotes == Apply("extract_notes", extract_notes(arg))

CollectTextFragments ==
    IsDict(arg) /\ Apply("_collect_text_fragments", _collect_text_fragments(arg))

ExtractNotesFromPayload ==
    Apply("_extract_notes_from_payload", _extract_notes_from_payload(arg))

ConvertFeedToNote == Apply("_convert_feed_to_note", _convert_feed_to_note(arg))

ConvertDetailToNote == Apply("_convert_detail_to_note", _convert_detail_to_note(arg))

ExtractPostText ==
    /\ IsDict(arg)
    /\ Apply("extract_post_text",
             [text |-> extract_post_text(arg), title |-> post_title_part(arg),
              body |-> post_body_part(arg)])

ExtractOcrText ==
    /\ IsDict(arg)
    /\ Apply("extract_ocr_text",
             [text |-> extract_ocr_text(arg), ocr_texts |-> ocr_texts_of(arg)])

ExtractDateFromNote ==
    IsDict(arg) /\ Apply("extract_date_from_note", extract_date_from_note(arg))

\* search_notes(keyword, limit=limit, raw_payload=arg) up to the request it
\* sends: the JSON object of the body
SearchNotesRequest ==
    /\ arg \in RawPayloads
    /\ \E keyword \in {Str(<<"alpha">>), EmptyStr}, limit \in {Num(1), Num(3)} :
           Apply("search_notes", [payload |-> _search_payload(keyword, limit, arg),
                                  keyword |-> keyword, limit |-> limit])

\* to_dict() of the ProcessedNote that process_notes builds from the record
\* (lines 296-367), for a record that has an id and a date that can be read
ToDict ==
    /\ IsDict(arg)
    /\ \E note_id \in {Or(Get(arg, "note_id"),
                           Or(Get(arg, "id"), GetD(arg, "noteId", EmptyStr)))} :
       \E note_date \in {extract_date_from_note(arg)} :
           /\ Truthy(note_id)
           /\ ~IsRaise(note_date)
           /\ \E note \in {_processed_note(arg, note_id, note_date)} :
                  Apply("to_dict", [note |-> note, dict |-> to_dict(note)])

\* process_notes with its default arguments, on the record (or the list of
\* records) as the batch
ProcessNotes ==
    Apply("process_notes",
          process_notes(IF IsList(arg) THEN arg.v ELSE <<arg>>,
                        DefaultDaysFilter, DefaultMaxResults, FALSE, FALSE, Today))

NextFn ==
    \/ ProcessNotes
    \/ ExtractNotes
    \/ CollectTextFragments
    \/ ExtractNotesFromPayload
    \/ ConvertFeedToNote
    \/ ConvertDetailToNote
    \/ ExtractPostText
    \/ ExtractOcrText
    \/ ExtractDateFromNote
    \/ SearchNotesRequest
    \/ ToDict

SpecFn == InitFn /\ [][NextFn]_vars

-----------------------------------------------------------------------------
(* Properties of the record-level functions (checked under SpecFn) *)

Applied(fn) == pc = "fn_done" /\ ret.fn = fn

IdentifierKeys == <<"note_id", "id", "noteId", "nid">>

\* the record has a non-empty identifier under one of the four keys
HasIdentifier(rec) ==
    \E i \in 1..Len(IdentifierKeys) : Truthy(Get(rec, IdentifierKeys[i]))

\* the record has a non-blank string identifier under one of the four keys
HasStrIdentifier(rec) ==
    \E i \in 1..Len(IdentifierKeys) :
        /\ IsStr(Get(rec, IdentifierKeys[i]))
        /\ strip(Get(rec, IdentifierKeys[i]).v) # <<>>

\* the non-blank string identifiers the record carries
StrIdentifiers(rec) ==
    {Get(rec, IdentifierKeys[i]) : i \in {j \in 1..Len(IdentifierKeys) :
        /\ IsStr(Get(rec, IdentifierKeys[j]))
        /\ strip(Get(rec, IdentifierKeys[j]).v) # <<>>}}

\* the maps of a payload in depth-first pre-order: a map before the maps nested
\* in it, map values in key order, list items in index order
RECURSIVE PreOrderMaps(_)
RECURSIVE PreOrderMapsEach(_)
PreOrderMapsEach(items) ==
    IF items = <<>> THEN <<>>
    ELSE PreOrderMaps(Head(items)) \o PreOrderMapsEach(Tail(items))

PreOrderMaps(payload) ==
    IF IsDict(payload) THEN <<payload>> \o PreOrderMapsEach(Values(payload))
    ELSE IF IsList(payload) THEN PreOrderMapsEach(payload.v)
    ELSE <<>>

\* C4 (as claimed): a record with no non-empty identifier under note_id, id,
\* noteId or nid yields no note from extract_notes, from process_notes, from
\* the feed adapter or from the detail adapter, and none of them raises.
C4_NoIdentifierNoNote ==
    (pc = "fn_done" /\ IsDict(arg) /\ ~HasIdentifier(arg)) =>
        /\ ret.fn = "extract_notes" =>
               \A i \in 1..Len(ret.out) : ret.out[i].raw # arg
        /\ ret.fn \in {"_convert_feed_to_note", "_convert_detail_to_note"} =>
               ret.out = Null
        /\ ret.fn = "process_notes" =>
               ~IsRaise(ret.out) /\ \A i \in 1..Len(ret.out.notes) : ret.out.notes[i].raw # arg

\* C5 (as claimed): a map with a non-empty identifier under any one of note_id,
\* id, noteId, nid (nid alone included) yields a Note carrying that identifier.
C5_AnyIdentifierKeyYieldsNote ==
    (Applied("extract_notes") /\ IsDict(arg) /\ HasStrIdentifier(arg)) =>
        \E i \in 1..Len(ret.out) :
            ret.out[i].raw = arg /\ ret.out[i].note_id \in StrIdentifiers(arg)

\* the walker's own test of a candidate (llm_agent.py line 310)
Qualifies(data) == Has(data, "note_id") \/ Has(data, "id") \/ Has(data, "noteId")

\* C6 (as claimed): _extract_notes_from_payload descends into a qualifying map,
\* so every qualifying map of the payload, also one nested inside another
\* qualifying map, is returned.
C6_WalkerDescendsIntoCandidates ==
    (Applied("_extract_notes_from_payload") /\ ~IsRaise(ret.out)) =>
        \A i \in 1..Len(PreOrderMaps(arg)) :
            Qualifies(PreOrderMaps(arg)[i]) =>
                PreOrderMaps(arg)[i] \in SeqToSet(ret.out.v)

\* C7 (as claimed): extract_notes returns exactly one Note per map, at any
\* depth, that carries a non-empty string identifier, in depth-first pre-order.
C7_OneNotePerIdentifiedMapInPreOrder ==
    Applied("extract_notes") =>
        [i \in 1..Len(ret.out) |-> ret.out[i].raw]
            = SelectSeq(PreOrderMaps(arg), HasStrIdentifier)

\* C8 (as claimed): the author is the value of the first key, in the order
\* user_nickname, user_name, author, nickname, that holds a non-empty string.
C8_AuthorPrefersUserNickname ==
    Applied("extract_notes") =>
        \A i \in 1..Len(ret.out) :
            ret.out[i].author
                = _first_str(ret.out[i].raw,
                             <<"user_nickname", "user_name", "author", "nickname">>)

\* C9 (as claimed): the body part of extract_post_text is the value of the first
\* key, in the order desc, description, note_desc, content, text, that holds a
\* non-empty string, and is empty when none of the five does.
C9_BodyFromFiveKeysInOrder ==
    Applied("extract_post_text") =>
        ret.out.body
            = _first_stripped(arg, <<"desc", "description", "note_desc", "content", "text">>)

\* the strings _collect_text_fragments visits, untrimmed, in traversal order: the
\* candidate keys of a record first, then the records nested in its values
RECURSIVE VisitedFragments(_)
RECURSIVE VisitedFragmentsEach(_)
VisitedFragmentsEach(items) ==
    IF items = <<>> THEN <<>>
    ELSE (IF IsDict(Head(items)) THEN VisitedFragments(Head(items))
          ELSE IF IsList(Head(items))
               THEN VisitedFragmentsEach(SelectSeq(Head(items).v, IsDict))
               ELSE <<>>)
             \o VisitedFragmentsEach(Tail(items))

VisitedFragments(rec) ==
    Concat([i \in 1..Len(candidate_keys) |->
               LET value == Get(rec, candidate_keys[i])
               IN  IF IsStr(value) THEN <<value.v>>
                   ELSE IF IsList(value)
                        THEN LET strs == SelectSeq(value.v, IsStr)
                             IN  [k \in 1..Len(strs) |-> strs[k].v]
                        ELSE <<>>])
        \o VisitedFragmentsEach(Values(rec))

\* the strings extract_ocr_text visits, untrimmed, in traversal order
RECURSIVE VisitedOcr(_)
RECURSIVE VisitedOcrEach(_)
RECURSIVE VisitedOcrPairs(_)
VisitedOcrEach(items) ==
    IF items = <<>> THEN <<>>
    ELSE VisitedOcr(Head(items)) \o VisitedOcrEach(Tail(items))

VisitedOcrPairs(pairs) ==
    IF pairs = <<>> THEN <<>>
    ELSE LET value == Head(pairs)[2]
         IN  (IF ~_is_ocr_key(Head(pairs)[1]) THEN VisitedOcr(value)
              ELSE IF IsStr(value) THEN <<value.v>>
              ELSE IF IsList(value)
                   THEN Concat([k \in 1..Len(value.v) |->
                                   IF IsStr(value.v[k]) THEN <<value.v[k].v>>
                                   ELSE IF IsDict(value.v[k]) THEN VisitedOcr(value.v[k])
                                   ELSE <<>>])
                   ELSE <<>>)
                 \o VisitedOcrPairs(Tail(pairs))

VisitedOcr(data) ==
    IF IsDict(data) THEN VisitedOcrPairs(data.v)
    ELSE IF IsList(data) THEN VisitedOcrEach(data.v)
    ELSE <<>>

\* position of the first visited string that trims to x
FirstSeen(visited, x) ==
    CHOOSE k \in 1..Len(visited) :
        strip(visited[k]) = x /\ \A m \in 1..(k - 1) : strip(visited[m]) # x

\* out lists, without repetition, the trimmed non-empty strings of visited in
\* the order of their first occurrence
FirstOccurrenceOrder(out, visited) ==
    /\ \A i \in 1..Len(out) : out[i] # <<>> /\ strip(out[i]) = out[i]
    /\ \A i, j \in 1..Len(out) : i # j => out[i] # out[j]
    /\ SeqToSet(out) = {strip(visited[k]) : k \in 1..Len(visited)} \ {<<>>}
    /\ \A i, j \in 1..Len(out) :
           i < j => FirstSeen(visited, out[i]) < FirstSeen(visited, out[j])

\* C10: the OCR fragments of _collect_text_fragments and of extract_ocr_text are
\* trimmed non-empty strings, pairwise different, in the order of their first
\* occurrence in the traversal.
C10_OcrFragmentsUniqueInFirstSeenOrder ==
    /\ Applied("_collect_text_fragments") =>
           FirstOccurrenceOrder(ret.out, VisitedFragments(arg))
    /\ Applied("extract_ocr_text") =>
           /\ FirstOccurrenceOrder(ret.out.ocr_texts, VisitedOcr(arg))
           /\ ret.out.text = join(<<"\n", "\n">>, ret.out.ocr_texts)

\* C10 witness: three strings were visited, two of them equal after trimming
\* but spelled differently, and two fragments were kept, by either collector
C10_Witness_RepeatedFragmentCollapsed ==
    \/ /\ Applied("extract_ocr_text")
       /\ Len(VisitedOcr(arg)) = 3
       /\ Len(ret.out.ocr_texts) = 2
       /\ \E k \in 2..3 : VisitedOcr(arg)[k] # VisitedOcr(arg)[1]
                             /\ strip(VisitedOcr(arg)[k]) = strip(VisitedOcr(arg)[1])
    \/ /\ Applied("_collect_text_fragments")
       /\ Len(VisitedFragments(arg)) = 3
       /\ Len(ret.out) = 2
       /\ \E k \in 2..3 : VisitedFragments(arg)[k] # VisitedFragments(arg)[1]
                             /\ strip(VisitedFragments(arg)[k]) = strip(VisitedFragments(arg)[1])

\* every string inside a value: the value itself, the elements of a list, the
\* values of a map, at any depth
RECURSIVE StringsBeneath(_)
StringsBeneath(value) ==
    IF IsStr(value) THEN {value.v}
    ELSE IF IsList(value)
    THEN UNION {StringsBeneath(value.v[k]) : k \in 1..Len(value.v)}
    ELSE IF IsDict(value)
    THEN UNION {StringsBeneath(value.v[k][2]) : k \in 1..Len(value.v)}
    ELSE {}

\* the strings beneath the OCR-like keys of a record, at any nesting depth
RECURSIVE StringsUnderOcrKeys(_)
StringsUnderOcrKeys(data) ==
    IF IsDict(data)
    THEN UNION {IF _is_ocr_key(data.v[k][1]) THEN StringsBeneath(data.v[k][2])
                ELSE StringsUnderOcrKeys(data.v[k][2]) : k \in 1..Len(data.v)}
    ELSE IF IsList(data)
    THEN UNION {StringsUnderOcrKeys(data.v[k]) : k \in 1..Len(data.v)}
    ELSE {}

\* C11 (as claimed): every non-blank string beneath a key whose lower-cased
\* name contains ocr, image_text or img_text (the value itself, an element of a
\* list, or a string inside a map or list nested under it) is, trimmed, one of
\* the fragments extract_ocr_text joins.
C11_EveryStringUnderOcrKeyCollected ==
    Applied("extract_ocr_text") =>
        \A s \in StringsUnderOcrKeys(arg) :
            strip(s) # <<>> => strip(s) \in SeqToSet(ret.out.ocr_texts)

\* the record has an id the adapters accept
CarriesId(rec) ==
    IsDict(rec) /\ \E k \in {"id", "note_id", "noteId"} : Truthy(Get(rec, k))

\* C21: for every feed or detail record that carries an id, the feed adapter
\* and the detail adapter return a note without raising, also when a nested
\* value they expect (noteCard, user, interactInfo, cover, note_detail) is
\* absent or is not a map; with noteCard or note_detail missing or not a map
\* the title is the one of the outer record.
C21_AdaptersFallBackToOuterRecord ==
    /\ Applied("_convert_feed_to_note") /\ CarriesId(arg)
            => /\ IsDict(ret.out)
               /\ ~IsDict(GetD(arg, "noteCard", Null))
                      => Get(ret.out, "title") = Get(arg, "title")
    /\ Applied("_convert_detail_to_note") /\ CarriesId(arg)
            => /\ IsDict(ret.out)
               /\ ~IsDict(GetD(arg, "note_detail", Null))
                      => Get(ret.out, "title") = Get(arg, "title")

\* the date a value under a date key stands for, Null when it stands for none:
\* a number is a timestamp in seconds, or in milliseconds above 1e12, and
\* stands for a date up to year 9999; a string stands for the date its first
\* 19 characters spell in one of the three formats
DateOfValue(value) ==
    IF value.t = "num" /\ value.v # 0
    THEN LET seconds == IF value.v > MsThreshold THEN value.v \div 1000 ELSE value.v
         IN  IF seconds < YearLimit /\ seconds > -YearLimit
             THEN DateTime(seconds \div SecondsPerDay, seconds % SecondsPerDay)
             ELSE Null
    ELSE IF IsStr(value) THEN _strptime_formats(Prefix(value.v, 19))
    ELSE Null

\* the keys of the ordered key list whose value stands for a date
DatedKeys(note) ==
    SelectSeq(date_keys, LAMBDA key : DateOfValue(Get(note, key)) # Null)

\* C22: extract_date_from_note never raises; whatever lies under a date key, a
\* value that cannot be read as a date moves the search on to the next key of
\* the ordered key list, the result is the date of the first key that yields
\* one, and it is absent when no key does.
C22_DateExtractionNeverRaises ==
    Applied("extract_date_from_note") =>
        /\ ~IsRaise(ret.out)
        /\ ret.out = IF DatedKeys(arg) = <<>> THEN Null
                     ELSE DateOfValue(Get(arg, DatedKeys(arg)[1]))

\* the records of a batch handed to process_notes
BatchOf(batch) == IF IsList(batch) THEN batch.v ELSE <<batch>>

\* C23: on every batch of map records process_notes runs to completion, and a
\* malformed record (no id, wrong-typed fields, a date value that cannot be
\* read or is out of range) does not keep the others from being processed: a
\* batch that holds a well-formed record of the window has a result that is
\* not empty.
C23_MalformedRecordNeverStopsTheBatch ==
    Applied("process_notes") /\ (\A i \in 1..Len(BatchOf(arg)) : IsDict(BatchOf(arg)[i])) =>
        /\ ~IsRaise(ret.out)
        /\ (\E i \in 1..Len(BatchOf(arg)) : BatchOf(arg)[i] = WellFormed)
               => ret.out.notes # <<>>

\* C25: the request body of search_notes carries version "2.0" and an
\* arguments object that holds the keyword, page_size equal to the requested
\* limit, and every entry of the caller's raw_payload.
C25_RequestWrapsArgumentsAndVersion ==
    Applied("search_notes") =>
        /\ Get(ret.out.payload, "version") = Str(<<"2.0">>)
        /\ \E arguments \in {Get(ret.out.payload, "arguments")} :
               /\ IsDict(arguments)
               /\ Get(arguments, "keyword") = ret.out.keyword
               /\ Get(arguments, "page_size") = ret.out.limit
               /\ IsDict(arg) =>
                      \A i \in 1..Len(arg.v) : Get(arguments, arg.v[i][1]) = arg.v[i][2]

\* the keys of the export form, and those of its text fields
ExportKeys ==
    <<"note_id", "title", "post_text", "ocr_text", "author", "url", "selection_date",
      "publish_time", "is_high_quality", "quality_score", "quality_notes">>

TextKeys ==
    <<"note_id", "title", "post_text", "ocr_text", "author", "url", "selection_date",
      "publish_time">>

\* the field of a ProcessedNote under a text key
TextField(note, key) ==
    CASE key = "note_id" -> note.note_id
      [] key = "title" -> note.title
      [] key = "post_text" -> note.post_text
      [] key = "ocr_text" -> note.ocr_text
      [] key = "author" -> note.author
      [] key = "url" -> note.url
      [] key = "selection_date" -> note.selection_date
      [] key = "publish_time" -> note.publish_time

\* the strings of a list with "; " between them
RECURSIVE Semicolons(_)
Semicolons(notes) ==
    IF notes = <<>> THEN <<>>
    ELSE IF Len(notes) = 1 THEN <<notes[1]>>
    ELSE <<notes[1], ";", " ">> \o Semicolons(Tail(notes))

\* C26: to_dict returns a flat record with exactly the eleven export keys;
\* every text field in it is a string, the empty string when the field of
\* the note is absent and never null; quality_notes is the note strings
\* joined with semicolons.
C26_ExportHasStringTextFields ==
    Applied("to_dict") =>
        /\ [i \in 1..Len(ret.out.dict.v) |-> ret.out.dict.v[i][1]] = ExportKeys
        /\ \A i \in 1..Len(TextKeys) :
               /\ IsStr(Get(ret.out.dict, TextKeys[i]))
               /\ TextField(ret.out.note, TextKeys[i]) = Null
                      => Get(ret.out.dict, TextKeys[i]) = EmptyStr
        /\ Get(ret.out.dict, "quality_notes") = Str(Semicolons(ret.out.note.quality_notes))

-----------------------------------------------------------------------------
(* src/xhs_alpha_picks/llm_agent.py: one run of search_keyword                   *)
(*                                                                           *)
(* The run is cut at its awaits: the search tool call of each tool call of   *)
(* the assistant message, each get_feed_detail call, and the final           *)
(* completion. What the tools answer is the environment's choice.            *)

MaxCalls == 2       \* most tool calls in the assistant message
MaxCount == 2       \* largest count parameter drawn

Token == Str(<<"x">>)

\* a feed of the search result, as the server writes it
Feed(id, title, time) ==
    Rec(<< <<"id", id>>, <<"xsecToken", Token>>,
           <<"noteCard", Rec(<< <<"displayTitle", title>>, <<"time", time>> >>)>> >>)

FeedA == Feed(A, Str(<<"t">>), Num(5 * SecondsPerDay + 1))
FeedB == Feed(B, Str(<<"u">>), Absent)

Feeds(items) == Map(<< <<"feeds", List(items)>> >>)

\* the answer of get_feed_detail, flat or under note_detail
DetailFullA ==
    Map(<< <<"note_id", A>>, <<"title", Str(<<"T">>)>>,
           <<"desc", Str(<<"Alpha Picks", " ", "3<ge>">>)>>,
           <<"time", Str(<<"2025-10-31", " ", "00:00:01">>)>>,
           <<"images", List(<<Map(<< <<"ocr_text", Str(<<"AAPL", " ", "TSLA">>)>> >>)>>)>> >>)
DetailBareA == Map(<< <<"note_id", A>>, <<"desc", Str(<<"d">>)>> >>)
DetailNestedB ==
    Map(<< <<"note_detail", Map(<< <<"id", B>>, <<"title", Str(<<"2025-10-30">>)>> >>)>> >>)

\* a payload as simplify_call_result builds it
Payload(is_error, structured_content, text) ==
    [is_error |-> is_error, structured_content |-> structured_content, text |-> text]

\* what the search tool may answer
SearchResults ==
    {Payload(FALSE, Null, <<chunk>>) :
        chunk \in {Feeds(<<FeedA>>), Feeds(<<FeedA, FeedB>>), Feeds(<<FeedA, FeedA>>),
                   Feeds(<<A>>), NotJson}}
        \cup {Payload(FALSE, Feeds(<<FeedA>>), <<Feeds(<<FeedA>>)>>),
              Payload(TRUE, Null, <<NotJson>>)}

\* what get_feed_detail may answer
DetailResults ==
    {Payload(FALSE, Null, <<chunk>>) : chunk \in {DetailFullA, DetailBareA, DetailNestedB}}
        \cup {Payload(FALSE, DetailFullA, <<>>)}

\* the caller's parameters, the tools of the server and the clock
Settings ==
    [count : 1..MaxCount, has_get_feed_detail : BOOLEAN, days_filter : {DefaultDaysFilter},
     max_results : {DefaultMaxResults, 2}, scan_mode : {"today", "latest", "range"},
     today : {Today}]

\* lines 174-187: temp_notes of the search result, as List(pairs), or the
\* exception that escapes
RECURSIVE _temp_notes_of_feeds(_)
_temp_notes_of_feeds(feeds) ==
    IF feeds = <<>> THEN List(<<>>)
    ELSE LET feed == Head(feeds) IN
         IF ~IsDict(feed) THEN Raise("AttributeError")
         ELSE LET note_id == Or(Get(feed, "id"), Get(feed, "note_id"))
                  xsec_token == Or(Get(feed, "xsecToken"), Get(feed, "xsec_token"))
                  rest == _temp_notes_of_feeds(Tail(feeds))
              IN  IF IsRaise(rest) THEN rest
                  ELSE IF Truthy(note_id) /\ Truthy(xsec_token)
                  THEN List(<< <<note_id, xsec_token>> >> \o rest.v)
                  ELSE rest

RECURSIVE _temp_notes(_)
_temp_notes(text) ==
    IF text = <<>> THEN List(<<>>)
    ELSE LET data == Head(text)
             first == IF Decodes(data) /\ IsDict(data) /\ Has(data, "feeds")
                         /\ Iterable(Get(data, "feeds"))
                      THEN _temp_notes_of_feeds(_iter(Get(data, "feeds")))
                      ELSE List(<<>>)
             rest == _temp_notes(Tail(text))
         IN  IF IsRaise(first) THEN first
             ELSE IF IsRaise(rest) THEN rest
             ELSE List(first.v \o rest.v)

Init ==
    /\ pc = "call"
    /\ calls_left \in 1..MaxCalls
    /\ settings \in Settings
    /\ tool_payloads = <<>>
    /\ pending = <<>>
    /\ raw_notes = <<>>
    /\ processed_notes = <<>>
    /\ target_date = Null
    /\ arg = Null
    /\ ret = NoRet

\* the run ends with the exception
Raised(e) ==
    /\ pc' = "raised"
    /\ ret' = [fn |-> "search_keyword", out |-> e]

\* lines 205-212 and the head of the loop of line 124: on to the next tool
\* call, or to the final completion
NextCall ==
    /\ calls_left' = calls_left - 1
    /\ pc' = IF calls_left > 1 THEN "call" ELSE "summary"

\* lines 160-190: the search tool answers simplified
SearchCall ==
    /\ pc = "call"
    /\ \E simplified \in SearchResults :
        IF simplified.is_error
        THEN \* line 167: the module defines no name logger
             /\ Raised(Raise("NameError"))
             /\ UNCHANGED <<tool_payloads, pending, calls_left>>
        ELSE \E temp_notes \in {_temp_notes(simplified.text)} :
             /\ tool_payloads' = Append(tool_payloads, simplified)
             /\ IF IsRaise(temp_notes)
                THEN Raised(temp_notes) /\ UNCHANGED <<pending, calls_left>>
                ELSE IF temp_notes.v # <<>> /\ settings.has_get_feed_detail
                THEN /\ pending' = Slice(temp_notes.v, settings.count)
                     /\ pc' = "detail"
                     /\ UNCHANGED <<calls_left, ret>>
                ELSE NextCall /\ UNCHANGED <<pending, ret>>
    /\ UNCHANGED <<arg, raw_notes, processed_notes, target_date, settings>>

\* the loop of line 192 moves on from the first pending note
DetailDone ==
    /\ pending' = Tail(pending)
    /\ IF Len(pending) > 1
       THEN pc' = "detail" /\ UNCHANGED calls_left
       ELSE NextCall

\* lines 194-200: get_feed_detail answers for the first pending note
DetailCall ==
    /\ pc = "detail"
    /\ \E detail_simplified \in DetailResults :
           tool_payloads' = Append(tool_payloads, detail_simplified)
    /\ DetailDone
    /\ UNCHANGED <<arg, ret, raw_notes, processed_notes, target_date, settings>>

\* lines 201-203: get_feed_detail fails, the note is skipped
DetailFails ==
    /\ pc = "detail"
    /\ DetailDone
    /\ UNCHANGED <<arg, ret, tool_payloads, raw_notes, processed_notes,
                   target_date, settings>>

\* lines 214-302: the final completion answers; the notes are extracted from
\* the payloads and processed
Summarise ==
    /\ pc = "summary"
    /\ \E got \in {_extract_raw_notes(<<>>, tool_payloads)} :
       IF IsRaise(got)
       THEN Raised(got) /\ UNCHANGED <<raw_notes, processed_notes, target_date>>
       ELSE \E outcome \in {process_notes(got.v, settings.days_filter,
                                          settings.max_results,
                                          settings.scan_mode = "today",
                                          settings.scan_mode = "latest",
                                          settings.today)} :
                /\ raw_notes' = got.v
                /\ IF IsRaise(outcome)
                   THEN Raised(outcome) /\ UNCHANGED <<processed_notes, target_date>>
                   ELSE /\ processed_notes' = outcome.notes
                        /\ target_date' = outcome.target_date
                        /\ pc' = "done"
                        /\ ret' = [fn |-> "search_keyword", out |-> Null]
    /\ UNCHANGED <<arg, tool_payloads, pending, calls_left, settings>>

Next ==
    \/ SearchCall
    \/ DetailCall
    \/ DetailFails
    \/ Summarise

Spec == Init /\ [][Next]_vars

-----------------------------------------------------------------------------
(* Properties of a run of search_keyword (checked under Spec) *)

\* the id under which process_notes reads a raw note (note_processor.py line 296)
RawNoteId(raw_note) ==
    Or(Get(raw_note, "note_id"), Or(Get(raw_note, "id"), GetD(raw_note, "noteId", EmptyStr)))

\* C1 (as claimed): when a run of search_keyword ends, neither the raw_notes
\* handed to process_notes nor the list process_notes returned holds two notes
\* with the same id.
C1_NoTwoNotesShareAnId ==
    pc = "done" =>
        /\ \A i, j \in 1..Len(raw_notes) :
               i # j => ~PyEq(RawNoteId(raw_notes[i]), RawNoteId(raw_notes[j]))
        /\ \A i, j \in 1..Len(processed_notes) :
               i # j => processed_notes[i].note_id # processed_notes[j].note_id

\* raw_notes when the loop of line 239 reaches chunk c of payload k
NotesBefore(k, c) ==
    LET earlier == _extract_raw_notes(<<>>, SubSeq(tool_payloads, 1, k - 1)).v
        structured == IF Truthy(tool_payloads[k].structured_content)
                      THEN _extract_notes_from_payload(tool_payloads[k].structured_content).v
                      ELSE <<>>
    IN  _extract_text(earlier \o structured, SubSeq(tool_payloads[k].text, 1, c - 1)).v

\* chunk c of payload k takes the branch of line 252 and its note is merged
\* into an existing note (line 264)
IsMerge(k, c) ==
    LET data == tool_payloads[k].text[c] IN
    /\ Decodes(data) /\ IsDict(data) /\ ~Has(data, "feeds")
    /\ Has(data, "note_detail") \/ Has(data, "note_id") \/ Has(data, "id")
    /\ IsDict(_convert_detail_to_note(data))
    /\ existing_idx(NotesBefore(k, c), _convert_detail_to_note(data)) # 0

\* the fields of the note that are populated
Populated(note) == {key \in {note.v[i][1] : i \in 1..Len(note.v)} : Truthy(Get(note, key))}

\* C2 (as claimed): a merge of a detail record into the existing note with its
\* id leaves every populated field of the existing note populated: with its
\* old value, or with the non-empty value the detail record has for it.
C2_MergeKeepsPopulatedFields ==
    pc = "done" =>
        \A k \in 1..Len(tool_payloads) : \A c \in 1..Len(tool_payloads[k].text) :
            IsMerge(k, c) =>
                LET before == NotesBefore(k, c)
                    note == _convert_detail_to_note(tool_payloads[k].text[c])
                    idx == existing_idx(before, note)
                    after == _merge_detail(before, note)
                IN  \A key \in Populated(before[idx]) :
                        \/ Get(after[idx], key) = Get(before[idx], key)
                        \/ Truthy(Get(note, key)) /\ Get(after[idx], key) = Get(note, key)

\* the feeds of a decoded value that has the "feeds" structure
FeedsOf(data) ==
    IF Decodes(data) /\ IsDict(data) /\ Has(data, "feeds") /\ IsList(Get(data, "feeds"))
    THEN SeqToSet(Get(data, "feeds").v)
    ELSE {}

\* the detail record a decoded value is, if it is one: flat, or under note_detail
DetailOf(data) ==
    IF Decodes(data) /\ IsDict(data) /\ ~Has(data, "feeds")
    THEN IF IsDict(Get(data, "note_detail")) THEN {Get(data, "note_detail")}
         ELSE IF Has(data, "note_id") \/ Has(data, "id") THEN {data}
         ELSE {}
    ELSE {}

\* the values the payloads of the run carry, as text chunks or structured content
Carried ==
    UNION {SeqToSet(tool_payloads[k].text) \cup {tool_payloads[k].structured_content} :
              k \in 1..Len(tool_payloads)}

\* the summary-shaped and the detail-shaped records of the run with the id
FeedsWithId(id) ==
    {feed \in UNION {FeedsOf(data) : data \in Carried} :
        IsDict(feed) /\ PyEq(RawNoteId(feed), id)}
DetailsWithId(id) ==
    {detail \in UNION {DetailOf(data) : data \in Carried} : PyEq(RawNoteId(detail), id)}

\* C3 (as claimed): when the payloads of a run carry a feed record and a detail
\* record with the same id, in any order and in any payload part, raw_notes
\* holds exactly one note for the id, and that note has the description that
\* only the detail record carries.
C3_FeedAndDetailBecomeOneNote ==
    pc = "done" =>
        \A id \in {A, B} :
            (FeedsWithId(id) # {} /\ DetailsWithId(id) # {}) =>
                /\ Cardinality({i \in 1..Len(raw_notes) :
                                   PyEq(RawNoteId(raw_notes[i]), id)}) = 1
                /\ \A detail \in DetailsWithId(id) :
                       Truthy(Get(detail, "desc")) =>
                           \E i \in 1..Len(raw_notes) :
                               /\ PyEq(RawNoteId(raw_notes[i]), id)
                               /\ Get(raw_notes[i], "description") = Get(detail, "desc")

\* C27: an answer of the search tool that is flagged as an error does not
\* abort search_keyword: like every other answer it is appended to the tool
\* payloads, and the run goes on to the detail fetches, the next tool call or
\* the extraction of the notes.
C27_ErrorAnswerIsKeptAndRunGoesOn ==
    [][pc = "call" =>
          /\ Len(tool_payloads') = Len(tool_payloads) + 1
          /\ tool_payloads'[Len(tool_payloads')].is_error
                 => pc' \in {"call", "detail", "summary"}]_vars

-----------------------------------------------------------------------------
(* src/xhs_alpha_picks/note_processor.py: process_notes on drawn batches and  *)
(* check_alpha_picks_quality on drawn notes                                  *)

MaxBatch == 2       \* longest batch drawn

Day28 == Str(<<"2025-10-28">>)
Day29 == Str(<<"2025-10-29">>)
Day31 == Str(<<"2025-10-31">>)
Slash31 == Str(<<"2025/10/31">>)
NoSuchDay == Str(<<"2025-13-45">>)
ThreePicks == Str(<<"Alpha Picks", " ", "3<ge>">>)

\* a raw note with the fields process_notes reads for its dates
PnTimes ==
    <<Absent, Day31, Num(3 * SecondsPerDay + 1), Str(<<"2025-10-28", " ", "23:59:59">>)>>

PnShapes ==
    {Rec(<< <<"title", ti>>, <<"desc", de>>, <<"description", dn>>,
            <<"time", PnTimes[tm]>> >>) :
        ti \in {Absent, Day29, Day31, ThreePicks},
        de \in {Absent, Slash31, NoSuchDay},
        dn \in {Absent, Day28},
        tm \in 1..Len(PnTimes)}

WithId(rec, id) == Map(<< <<"note_id", id>> >> \o rec.v)

\* the first note of a batch
PnFirst == {WithId(r, A) : r \in PnShapes}

\* the notes that follow it; the last two have no id
PnFollowers ==
    {WithId(Map(<< <<"time", Day31>> >>), B),
     WithId(Map(<< <<"title", Day29>> >>), B),
     WithId(EmptyDict, B),
     WithId(Map(<< <<"title", ThreePicks>>, <<"time", Num(3 * SecondsPerDay + 1)>> >>), B),
     Map(<< <<"title", Str(<<"2025-11-01">>)>> >>),
     Map(<< <<"time", Str(<<"2025-11-01">>)>> >>)}

\* the batches of up to n notes
RECURSIVE PnBatches(_)
PnBatches(n) ==
    IF n = 0 THEN {<<>>}
    ELSE PnBatches(n - 1)
             \cup {Append(b, r) : b \in {c \in PnBatches(n - 1) : Len(c) = n - 1},
                                 r \in IF n = 1 THEN PnFirst ELSE PnFollowers}

\* the arguments of process_notes besides the batch
PnSettings ==
    [days_filter : {1, DefaultDaysFilter}, max_results : {0, DefaultMaxResults, 2},
     scan_mode : {"today", "latest", "range"}, today : {Today}]

\* a text from optional parts, separated by blanks
RECURSIVE Spaced(_)
Spaced(parts) ==
    IF parts = <<>> THEN <<>>
    ELSE IF Head(parts) = <<>> THEN Spaced(Tail(parts))
    ELSE Head(parts) \o (IF Spaced(Tail(parts)) = <<>> THEN <<>> ELSE <<" ">>)
             \o Spaced(Tail(parts))

\* a ProcessedNote as process_notes hands it to the scorer (lines 351-361)
QualityNote(post_text, ocr_text, selection_date) ==
    [t |-> "note",
     v |-> [note_id |-> A, title |-> Null, post_text |-> Str(post_text),
            ocr_text |-> ocr_text, author |-> Null, url |-> Null,
            selection_date |-> selection_date, publish_time |-> Null]]

QualityNotes ==
    {QualityNote(Spaced(<<topic, picks, date, filler>>), ocr_text, selection_date) :
        topic \in {<<>>, <<"Alpha Picks">>, <<"seeking alpha">>},
        picks \in {<<>>, <<"3<ge>">>, <<"2<zhi1>">>, <<"5<zhi>">>, <<"AAPL", ",", " ", "TSLA">>,
                   <<"1.", " ", "AAPL", " ", "2.", " ", "TSLA", " ", "3.", " ", "MSFT">>},
        date \in {<<>>, <<"2025-10-31">>, <<"10<yue>31<ri>">>},
        filler \in {<<>>, <<"<filler of 60>">>, <<"<filler of 210>">>},
        ocr_text \in {Null, EmptyStr, Str(<<"<filler of 60>">>), Str(<<"3<ge>">>)},
        selection_date \in {Null, Day31}}

InitPn ==
    /\ pc = "pn_ready"
    /\ arg \in {List(b) : b \in PnBatches(MaxBatch)} \cup QualityNotes
    /\ ret = NoRet
    /\ Idle

\* process_notes(arg, ...): the result, with the list processed of line 293 as
\* it stands before the sort
ProcessBatch ==
    /\ pc = "pn_ready"
    /\ IsList(arg)
    /\ \E s \in PnSettings :
           /\ settings' = s
           /\ \E out \in {process_notes(arg.v, s.days_filter, s.max_results,
                                         s.scan_mode = "today", s.scan_mode = "latest",
                                         s.today)} :
              \E processed \in {_processed_list(arg.v, s.days_filter,
                                                s.scan_mode = "today",
                                                s.scan_mode = "latest", s.today)} :
                  ret' = [fn |-> "process_notes", out |-> out, processed |-> processed]
    /\ pc' = "pn_done"
    /\ UNCHANGED <<arg, tool_payloads, pending, calls_left, raw_notes,
                   processed_notes, target_date>>

\* check_alpha_picks_quality(arg)
CheckQuality ==
    /\ pc = "pn_ready"
    /\ arg.t = "note"
    /\ \E quality \in {check_alpha_picks_quality(arg.v)} :
           ret' = [fn |-> "check_alpha_picks_quality",
                   out |-> [is_high_quality |-> quality[1], score |-> quality[2],
                            quality_notes |-> quality[3]]]
    /\ pc' = "pn_done"
    /\ UNCHANGED <<arg, runVars>>

NextPn ==
    \/ ProcessBatch
    \/ CheckQuality

SpecPn == InitPn /\ [][NextPn]_vars

-----------------------------------------------------------------------------
(* Properties of process_notes and of the scorer (checked under SpecPn) *)

Done(fn) == pc = "pn_done" /\ ret.fn = fn

\* the records of the batch that carry an id
Identified == {arg.v[i] : i \in {k \in 1..Len(arg.v) : HasIdentifier(arg.v[k])}}

\* the record is in the list processed: the date filter let it through
Kept(raw_note) == \E i \in 1..Len(ret.processed.v) : ret.processed.v[i].raw = raw_note

\* the record is among the notes returned
Returned(raw_note) == \E i \in 1..Len(ret.out.notes) : ret.out.notes[i].raw = raw_note

\* the text under a key, when it is a string
TextOf(raw_note, key) ==
    IF IsStr(Get(raw_note, key)) THEN Get(raw_note, key).v ELSE <<>>

\* the valid dates written in the title and in the description of a note, in
\* the order they are written
WrittenDates(raw_note) ==
    SelectSeq(TextOf(raw_note, "title") \o TextOf(raw_note, "desc")
                  \o TextOf(raw_note, "description"),
              LAMBDA tok : tok \in DateShaped /\ DayOfLiteral(Dashed(tok)) >= 0)

\* the day of the text-derived date, -1 when the text holds no valid date
TextDay(raw_note) ==
    IF WrittenDates(raw_note) = <<>> THEN -1
    ELSE DayOfLiteral(Dashed(WrittenDates(raw_note)[1]))

\* the day of the metadata date, -1 when there is none
MetadataDay(raw_note) ==
    IF IsDateTime(extract_date_from_note(raw_note))
    THEN extract_date_from_note(raw_note).v[1]
    ELSE -1

\* the day of the effective date: the text-derived date when there is one,
\* else the metadata date; -1 when the note has no determinable date
EffectiveDay(raw_note) ==
    IF TextDay(raw_note) >= 0 THEN TextDay(raw_note) ELSE MetadataDay(raw_note)

\* the today policy and the rolling window accept the day d
Accepts(d) ==
    CASE settings.scan_mode = "today" -> d = settings.today.v[1]
      [] settings.scan_mode = "range" -> d >= settings.today.v[1] - settings.days_filter

\* C12 (as claimed): when the title or the description of a note holds a valid
\* date, the filter decides on that date whatever the metadata date is, under
\* every policy; it decides on the metadata date only when the text holds no
\* valid date. Under the latest policy, where the day to match is found from
\* the batch, notes with the same effective day share their fate.
C12_TextDateIsTheEffectiveDate ==
    (Done("process_notes") /\ ~IsRaise(ret.processed)) =>
        /\ settings.scan_mode # "latest" =>
               \A r \in Identified :
                   /\ TextDay(r) >= 0 => (Kept(r) <=> Accepts(TextDay(r)))
                   /\ (TextDay(r) < 0 /\ MetadataDay(r) >= 0) =>
                          (Kept(r) <=> Accepts(MetadataDay(r)))
        /\ settings.scan_mode = "latest" =>
               \A r, q \in Identified :
                   (EffectiveDay(r) >= 0 /\ EffectiveDay(r) = EffectiveDay(q)) =>
                       (Kept(r) <=> Kept(q))

\* C13 (as claimed): with filter_today, every note returned has an effective
\* date on the current local day, a note with no determinable date is never
\* returned, and no note with an id whose effective day is today is removed by
\* the date filter.
C13_TodayKeepsExactlyTodaysNotes ==
    (Done("process_notes") /\ settings.scan_mode = "today" /\ ~IsRaise(ret.out)) =>
        /\ \A i \in 1..Len(ret.out.notes) :
               EffectiveDay(ret.out.notes[i].raw) = settings.today.v[1]
        /\ \A r \in Identified :
               EffectiveDay(r) = settings.today.v[1] => Kept(r)

\* the largest effective day over all records of the batch, -1 when no record
\* has a determinable date
LatestDay ==
    IF \A i \in 1..Len(arg.v) : EffectiveDay(arg.v[i]) < 0 THEN -1
    ELSE CHOOSE d \in {EffectiveDay(arg.v[i]) : i \in 1..Len(arg.v)} :
             \A i \in 1..Len(arg.v) : EffectiveDay(arg.v[i]) <= d

\* C14 (as claimed): with filter_latest_date and without filter_today, the
\* target date returned is the largest day-truncated effective date over all
\* records of the batch, text-derived dates of records without a metadata date
\* included, and the date filter keeps exactly the notes whose effective day is
\* that day.
C14_LatestTargetsTheMaximumEffectiveDay ==
    (Done("process_notes") /\ settings.scan_mode = "latest" /\ ~IsRaise(ret.out)
         /\ LatestDay >= 0) =>
        /\ ret.out.target_date = DateTime(LatestDay, 0)
        /\ \A r \in Identified : Kept(r) <=> EffectiveDay(r) = LatestDay

\* C15 (as claimed): with both flags false, a note with an id passes the date
\* filter exactly when it has no determinable effective date or its effective
\* day is on or after today minus days_filter days, and no target date is
\* returned.
C15_WindowKeepsFromCutoffOn ==
    (Done("process_notes") /\ settings.scan_mode = "range" /\ ~IsRaise(ret.out)) =>
        /\ \A r \in Identified :
               Kept(r) <=> \/ EffectiveDay(r) < 0
                           \/ EffectiveDay(r) >= settings.today.v[1] - settings.days_filter
        /\ ret.out.target_date = Null

\* the text the scorer reads: post text and OCR text of the note it is given
ScoredText ==
    Lower(IF Truthy(arg.v.post_text) THEN arg.v.post_text.v ELSE <<>>) \o <<" ">>
        \o Lower(IF Truthy(arg.v.ocr_text) THEN arg.v.ocr_text.v ELSE <<>>)

\* the quality notes of the selections signal
ManySelections == {"Contains " \o ToString(k) \o "+ selections" : k \in 3..5}
FewSelections == {"Contains " \o ToString(k) \o " selection(s) - low quality" : k \in 1..2}

\* the tickers a text enumerates as a numbered list ("1. AAPL 2. TSLA ...")
NumberedTickers(text) ==
    Cardinality({i \in 1..Len(text) : _numbered_symbol_at(text, i)})

\* C16 (as claimed): for a note whose text enumerates three or more tickers as
\* a numbered list, the scorer finds a selection count of at least 3 and adds
\* the 0.40 signal of enumerated selections to the score.
C16_NumberedListCountsAsThreeSelections ==
    (Done("check_alpha_picks_quality") /\ NumberedTickers(arg.v.post_text.v) >= 3) =>
        /\ ret.out.quality_notes[2] \in ManySelections
        /\ ret.out.score >= 400

\* C17: is_high_quality is true exactly when the score is at least 0.7 and the
\* selection count is at least 3; with a count below 3 a note is never
\* high-quality, and with a count of 3 or more and the topical reference it
\* always is.
C17_HighQualityIffScoreAndCount ==
    Done("check_alpha_picks_quality") =>
        /\ ret.out.is_high_quality <=>
               (ret.out.score >= 700 /\ _selection_count(ScoredText) >= 3)
        /\ _selection_count(ScoredText) < 3 => ~ret.out.is_high_quality
        /\ (_selection_count(ScoredText) >= 3 /\ _has_seeking_alpha(ScoredText)) =>
               ret.out.is_high_quality

\* C17 witness: a note whose score reaches 0.7 with one or two selections only
\* is not classified high-quality
C17_Witness_ScoreWithoutCount ==
    /\ Done("check_alpha_picks_quality")
    /\ ret.out.score >= 700
    /\ _selection_count(ScoredText) \in 1..2
    /\ ~ret.out.is_high_quality

\* the weight of each signal, read from its quality note
TopicWeight(notes) ==
    IF notes[1] = "References Seeking Alpha/Alpha Picks" THEN 300 ELSE 0
SelectionsWeight(notes) ==
    IF notes[2] \in ManySelections THEN 400
    ELSE IF notes[2] \in FewSelections THEN 200 ELSE 0
DateWeight(notes) == IF notes[3] = "Contains selection date" THEN 200 ELSE 0
ContentWeight(notes) == IF notes[4] = "Has substantial content" THEN 100 ELSE 0

\* C18: the score is the sum of the weights of the signals that fire (0.30
\* topical reference; 0.40 for a count of 3 or more, else 0.20 for a count of 1
\* or 2; 0.20 date; 0.10 substance), added in that order as floating-point
\* numbers; it lies in [0,1]; the quality notes are four, one per signal in
\* that order.
C18_ScoreIsTheSumOfFiredWeights ==
    Done("check_alpha_picks_quality") =>
        LET notes == ret.out.quality_notes IN
        /\ Len(notes) = 4
        /\ notes[1] \in {"References Seeking Alpha/Alpha Picks",
                          "Missing Seeking Alpha reference"}
        /\ notes[1] = "References Seeking Alpha/Alpha Picks" <=>
               _has_seeking_alpha(ScoredText)
        /\ notes[2] \in ManySelections \cup FewSelections
                            \cup {"No clear multiple selections found"}
        /\ notes[2] \in ManySelections <=> _selection_count(ScoredText) >= 3
        /\ notes[2] \in FewSelections <=> _selection_count(ScoredText) \in 1..2
        /\ notes[3] \in {"Contains selection date", "Missing selection date"}
        /\ notes[3] = "Contains selection date" <=>
               (_has_date(ScoredText) \/ Truthy(arg.v.selection_date))
        /\ notes[4] \in {"Has substantial content", "Content may be incomplete"}
        /\ ret.out.score =
               FloatAdd(FloatAdd(FloatAdd(FloatAdd(0, TopicWeight(notes)),
                                          SelectionsWeight(notes)),
                                 DateWeight(notes)),
                        ContentWeight(notes))
        /\ ret.out.score >= 0 /\ ret.out.score <= 1000

\* C18 witness: all four signals fire
C18_Witness_AllSignalsFire ==
    /\ Done("check_alpha_picks_quality")
    /\ ret.out.quality_notes = <<"References Seeking Alpha/Alpha Picks",
                                 "Contains 3+ selections", "Contains selection date",
                                 "Has substantial content">>
    /\ ret.out.score = 999

\* the sort key of n is below that of m: (is_high_quality, score, publish
\* time), an absent publish time being the empty string
KeyBelow(n, m) ==
    LET high(x) == IF x.is_high_quality THEN 1 ELSE 0
        published(x) == StrRank(IF x.publish_time = Null THEN <<>> ELSE x.publish_time.v)
    IN  \/ high(n) < high(m)
        \/ high(n) = high(m) /\ n.quality_score < m.quality_score
        \/ /\ high(n) = high(m) /\ n.quality_score = m.quality_score
           /\ published(n) < published(m)

\* C19: the notes process_notes returns are in descending order of the key
\* (is_high_quality, score, publish-time string): no note is followed by a note
\* with a greater key.
C19_ReturnedInDescendingKeyOrder ==
    (Done("process_notes") /\ ~IsRaise(ret.out)) =>
        \A i \in 1..(Len(ret.out.notes) - 1) :
            ~KeyBelow(ret.out.notes[i], ret.out.notes[i + 1])

\* C19 witness: two notes are returned, the second note of the batch first,
\* because its key is the greater one
C19_Witness_LaterNoteSortedFirst ==
    /\ Done("process_notes")
    /\ ~IsRaise(ret.out)
    /\ Len(arg.v) = 2
    /\ Len(ret.out.notes) = 2
    /\ ret.out.notes[1].raw = arg.v[2]
    /\ KeyBelow(ret.out.notes[2], ret.out.notes[1])

\* the note the record would become, whatever the date filter decides
Scored(raw_note) ==
    _processed_note(raw_note, Get(raw_note, "note_id"), extract_date_from_note(raw_note))

Least(x, y) == IF x <= y THEN x ELSE y

\* the notes returned are the first max_results of processed by key
TopOfProcessed ==
    /\ Len(ret.out.notes) = Least(settings.max_results, Len(ret.processed.v))
    /\ \A i \in 1..Len(ret.out.notes) : Kept(ret.out.notes[i].raw)
    /\ \A i \in 1..Len(ret.out.notes), k \in 1..Len(ret.processed.v) :
           Returned(ret.processed.v[k].raw)
               \/ ~KeyBelow(ret.out.notes[i], ret.processed.v[k])

C29_LatestReturnsNotesOfTheTargetDate ==
    (Done("process_notes") /\ settings.scan_mode = "latest") =>
        \A i \in 1..Len(ret.out.notes) :
            DateTime(EffectiveDay(ret.out.notes[i].raw), 0) = ret.out.target_date

\* C30: process_notes returns at most max_results notes; the notes returned
\* are all high-quality or none of them is, and a note that is not
\* high-quality is returned only when no note that passed the date filter is
\* high-quality.
C30_AtMostMaxResultsAndNeverMixed ==
    Done("process_notes") =>
        /\ Len(ret.out.notes) <= settings.max_results
        /\ \/ \A i \in 1..Len(ret.out.notes) : ret.out.notes[i].is_high_quality
           \/ \A i \in 1..Len(ret.out.notes) : ~ret.out.notes[i].is_high_quality
        /\ (\E i \in 1..Len(ret.out.notes) : ~ret.out.notes[i].is_high_quality)
               => \A k \in 1..Len(ret.processed.v) : ~ret.processed.v[k].is_high_quality

\* two notes passed the filter, one of them high-quality; with room for two
\* only the high-quality one is returned
C30_Witness_OnlyTheHighQualityNoteReturned ==
    /\ Done("process_notes")
    /\ settings.max_results = 2
    /\ Len(ret.processed.v) = 2
    /\ ~ret.processed.v[1].is_high_quality
    /\ ret.processed.v[2].is_high_quality
    /\ Len(ret.out.notes) = 1
    /\ ret.out.notes[1].is_high_quality

-----------------------------------------------------------------------------
(* src/xhs_alpha_picks/cli.py: main, one step per call on the client and on  *)
(* the summariser                                                            *)

\* the parsed arguments main branches on
CliArgs ==
    [check_connection : BOOLEAN, offline : BOOLEAN, debug : BOOLEAN,
     show_raw : BOOLEAN, save_json : BOOLEAN]

\* main stops after the ping of a run that only checks the connection
_after_ping_ok_searches_anyway(check_connection) == "cli_search"

\* lines 131-134: where main goes after a ping that returned
_after_ping_ok(check_connection) ==
    IF check_connection THEN "cli_exit" ELSE "cli_search"

\* lines 165-174: where main goes with the notes of the search
_after_notes(has_notes, offline) ==
    IF ~has_notes \/ offline THEN "cli_exit" ELSE "cli_summarise"

\* lines 101-123: what --debug writes before the first call
_debug_lines(debug) ==
    IF debug THEN <<"MCP connection configuration">> ELSE <<>>

\* lines 142-145 and 152-155: the hint written unless --debug is given
_debug_hint(debug) ==
    IF debug THEN <<>> ELSE <<"Re-run with --debug">>

InitCli ==
    /\ pc = "cli_ping"
    /\ arg \in CliArgs
    /\ ret = [fn |-> "main", out |-> Null, calls |-> <<>>,
              stream |-> _debug_lines(arg.debug)]
    /\ Idle

\* main ends: it returns the exit code, or an exception escapes
MainEnds(exit_code, calls, stream) ==
    ret' = [fn |-> "main", out |-> exit_code, calls |-> calls, stream |-> stream]

\* lines 125-146: client.ping() returns, raises MCPError, or raises something
\* else (urlsplit's ValueError for a port that is no number)
Ping ==
    /\ pc = "cli_ping"
    /\ \E outcome \in {"returns", "MCPError", "ValueError"} :
        \E calls \in {Append(ret.calls, <<"ping", outcome>>)} :
           CASE outcome = "MCPError" ->
                    /\ pc' = "cli_exit"
                    /\ MainEnds(Num(2), calls,
                               ret.stream \o
                               (IF arg.check_connection
                                THEN <<"Connection check failed">>
                                ELSE <<"MCP server is unreachable">>
                                         \o _debug_hint(arg.debug)))
             [] outcome = "ValueError" ->
                    /\ pc' = "cli_raised"
                    /\ MainEnds(Raise(outcome), calls, ret.stream)
             [] OTHER ->
                    /\ pc' = _after_ping_ok(arg.check_connection)
                    /\ MainEnds(IF pc' = "cli_exit" THEN Num(0) ELSE Null, calls,
                               ret.stream \o (IF arg.check_connection
                                              THEN <<"is reachable">> ELSE <<>>))
    /\ UNCHANGED <<arg, runVars>>

\* lines 148-174: client.search_notes(...) raises MCPError, raises something
\* else (a timeout while the body is read), or returns a result with or
\* without notes; the raw payload is printed and saved, and writing the file
\* may fail
SearchNotes ==
    /\ pc = "cli_search"
    /\ \E outcome \in {"MCPError", "TimeoutError", "no notes", "notes"} :
        \E calls \in {Append(ret.calls, <<"search_notes", outcome>>)} :
           CASE outcome = "MCPError" ->
                    /\ pc' = "cli_exit"
                    /\ MainEnds(Num(2), calls,
                               ret.stream \o <<"Error">> \o _debug_hint(arg.debug))
             [] outcome = "TimeoutError" ->
                    /\ pc' = "cli_raised"
                    /\ MainEnds(Raise(outcome), calls, ret.stream)
             [] OTHER ->
                \E written \in IF arg.save_json THEN BOOLEAN ELSE {TRUE} :
                \E raw \in {ret.stream \o (IF arg.show_raw THEN <<"raw">> ELSE <<>>)} :
                    IF ~written
                    THEN /\ pc' = "cli_raised"
                         /\ MainEnds(Raise("OSError"), calls, raw)
                    ELSE \E saved \in {raw \o (IF arg.save_json
                                                THEN <<"Raw payload saved">> ELSE <<>>)} :
                         /\ pc' = _after_notes(outcome = "notes", arg.offline)
                         /\ MainEnds(IF pc' = "cli_exit" THEN Num(0) ELSE Null, calls,
                                    saved \o
                                    (IF outcome = "no notes" THEN <<"No notes found">>
                                     ELSE <<"Retrieved">> \o
                                          (IF arg.offline
                                           THEN <<"Offline mode enabled">> ELSE <<>>)))
    /\ UNCHANGED <<arg, runVars>>

\* lines 176-189: DeepSeekSummarizer(...) raises RuntimeError, or summarise
\* returns the summary or raises
SummariseNotes ==
    /\ pc = "cli_summarise"
    /\ \E outcome \in {"RuntimeError", "returns", "APIError"} :
           CASE outcome = "RuntimeError" ->
                    /\ pc' = "cli_exit"
                    /\ MainEnds(Num(0), Append(ret.calls, <<"DeepSeekSummarizer", outcome>>),
                               Append(ret.stream, "Skipping DeepSeek summarisation"))
             [] outcome = "APIError" ->
                    /\ pc' = "cli_raised"
                    /\ MainEnds(Raise(outcome), Append(ret.calls, <<"summarise", outcome>>),
                               ret.stream)
             [] OTHER ->
                    /\ pc' = "cli_exit"
                    /\ MainEnds(Num(0), Append(ret.calls, <<"summarise", outcome>>),
                               Append(ret.stream, "DeepSeek summary"))
    /\ UNCHANGED <<arg, runVars>>

NextCli ==
    \/ Ping
    \/ SearchNotes
    \/ SummariseNotes

SpecCli == InitCli /\ [][NextCli]_vars

\* the calls made so far that raised MCPError
FailedCalls == {i \in 1..Len(ret.calls) : ret.calls[i][2] = "MCPError"}

\* the positions of the calls of search_notes
SearchCalls == {i \in 1..Len(ret.calls) : ret.calls[i][1] = "search_notes"}

\* C24: a completed run of main exits with 2 exactly when ping or search_notes
\* raised MCPError, and with 0 otherwise; search_notes is never called after
\* a ping that failed, and never at all with --check-connection.
C24_ExitCodeTwoExactlyOnMcpError ==
    /\ pc = "cli_exit" =>
           /\ ret.out \in {Num(0), Num(2)}
           /\ ret.out = Num(2) <=>
                  \E i \in FailedCalls : ret.calls[i][1] \in {"ping", "search_notes"}
    /\ \A i \in FailedCalls : ret.calls[i][1] = "ping" => SearchCalls = {}
    /\ arg.check_connection => SearchCalls = {}

\* the search fails after a ping that succeeded: exit code 2
C24_Witness_SearchFailsAfterPing ==
    /\ pc = "cli_exit"
    /\ ret.out = Num(2)
    /\ ret.calls = << <<"ping", "returns">>, <<"search_notes", "MCPError">> >>

-----------------------------------------------------------------------------
(* src/xhs_alpha_picks/mcp_client.py: connect_via_candidates, one step per   *)
(* awaited group.connect_to_server                                           *)
(*                                                                           *)
(* A URL is the sequence of its parts: the origin, then the path segments,   *)
(* each with its leading slash; a trailing "/" is a part of its own.         *)

MaxUrls == 3        \* longest candidate list drawn

Origin == "http://127.0.0.1:18060"

\* the candidates of Settings.load (config.py lines 49-56), and one with a
\* trailing slash
CandidateUrls ==
    {<<Origin, "/mcp">>, <<Origin, "/mcp", "/">>, <<Origin, "/mcp", "/stream">>,
     <<Origin, "/stream">>, <<Origin, "/sse">>, <<Origin>>}

\* url.rstrip("/")
RECURSIVE _rstrip_slash(_)
_rstrip_slash(url) ==
    IF url # <<>> /\ url[Len(url)] = "/" THEN _rstrip_slash(SubSeq(url, 1, Len(url) - 1))
    ELSE url

\* _server_params_for: the class of the transport parameters for the URL
_server_params_for(url) ==
    LET url_clean == _rstrip_slash(url) IN
    IF \/ url_clean[Len(url_clean)] = "/mcp"
       \/ \E i \in 1..(Len(url_clean) - 1) : url_clean[i] = "/mcp"
    THEN "StreamableHttpParameters"
    ELSE IF \E i \in 1..Len(url_clean) : url_clean[i] = "/stream"
    THEN "StreamableHttpParameters"
    ELSE "SseServerParameters"

\* a failed first attempt is followed by an SSE attempt whatever it used
_tries_sse_after_always(params) == TRUE

\* line 76: a failed first attempt is followed by an SSE attempt
_tries_sse_after(params) == params = "StreamableHttpParameters"

\* the candidate lists of up to n URLs
RECURSIVE UrlLists(_)
UrlLists(n) ==
    IF n = 0 THEN {<<>>}
    ELSE UrlLists(n - 1)
             \cup {Append(l, u) : l \in {m \in UrlLists(n - 1) : Len(m) = n - 1},
                                 u \in CandidateUrls}

\* lines 60-64: arg is urls, pending the candidates the loop has not finished
InitConn ==
    /\ pc = "conn_loop"
    /\ arg \in UrlLists(MaxUrls)
    /\ pending = arg
    /\ ret = [fn |-> "connect_via_candidates", out |-> Null, attempts |-> <<>>,
              errors |-> <<>>]
    /\ tool_payloads = <<>>
    /\ calls_left = 0
    /\ raw_notes = <<>>
    /\ processed_notes = <<>>
    /\ target_date = Null
    /\ settings = Null

\* the position in urls of the candidate the loop is at
CandidateIndex == Len(arg) - Len(pending) + 1

\* lines 70-73 and 80-83: the attempt succeeded; the loop is left and the
\* connection is yielded (line 103)
Connected(attempt) ==
    /\ pc' = "conn_yielded"
    /\ ret' = [ret EXCEPT !.attempts = Append(@, attempt),
                          !.out = [t |-> "MCPConnection", connected_url |-> Head(pending)]]
    /\ UNCHANGED pending

\* lines 86-87 and 90-91: the candidate is given up, the loop moves on
GivenUp(attempt, first_exc) ==
    /\ pc' = "conn_loop"
    /\ ret' = [ret EXCEPT !.attempts = Append(@, attempt),
                          !.errors = Append(@, <<Head(pending), first_exc>>)]
    /\ pending' = Tail(pending)

\* lines 66-77, 88-91: the first attempt for the next candidate
ConnectToServer ==
    /\ pc = "conn_loop"
    /\ pending # <<>>
    /\ \E params \in {_server_params_for(Head(pending))} :
       \E connects \in BOOLEAN :
       \E attempt \in {[index |-> CandidateIndex, params |-> params, ok |-> connects]} :
           IF connects THEN Connected(attempt)
           ELSE IF _tries_sse_after(params)
           THEN /\ pc' = "conn_fallback"
                /\ ret' = [ret EXCEPT !.attempts = Append(@, attempt)]
                /\ UNCHANGED pending
           ELSE GivenUp(attempt, "first_exc")
    /\ UNCHANGED <<arg, tool_payloads, calls_left, raw_notes, processed_notes,
                   target_date, settings>>

\* lines 78-87: the SSE attempt for the same candidate
ConnectFallback ==
    /\ pc = "conn_fallback"
    /\ \E connects \in BOOLEAN :
       \E attempt \in {[index |-> CandidateIndex, params |-> "SseServerParameters",
                         ok |-> connects]} :
           IF connects THEN Connected(attempt) ELSE GivenUp(attempt, "first_exc")
    /\ UNCHANGED <<arg, tool_payloads, calls_left, raw_notes, processed_notes,
                   target_date, settings>>

\* lines 93-100: the loop ran out of candidates without a session
NoSession ==
    /\ pc = "conn_loop"
    /\ pending = <<>>
    /\ pc' = "conn_raised"
    /\ ret' = [ret EXCEPT !.out = Raise("MCPConnectionError")]
    /\ UNCHANGED <<arg, pending, tool_payloads, calls_left, raw_notes, processed_notes,
                   target_date, settings>>

NextConn ==
    \/ ConnectToServer
    \/ ConnectFallback
    \/ NoSession

SpecConn == InitConn /\ [][NextConn]_vars

\* the attempts made so far for the candidate at position i
AttemptsFor(i) == SelectSeq(ret.attempts, LAMBDA a : a.index = i)

\* the URL asks for Streamable HTTP: its path holds a segment /mcp or /stream
AsksForStreamableHttp(url) ==
    \E i \in 2..Len(url) : url[i] \in {"/mcp", "/stream"}

\* C28: the candidates are tried strictly in list order; a candidate gets at
\* most two attempts, the transport chosen from its URL and then SSE, the
\* second only after a failed Streamable HTTP attempt; nothing is attempted
\* after the first success; the connection yielded has the URL of the first
\* candidate for which an attempt succeeded; MCPConnectionError is raised,
\* and nothing yielded, exactly when every candidate was tried and no attempt
\* succeeded (an empty list included).
C28_CandidatesTriedInOrderUntilFirstSuccess ==
    /\ \A k \in 1..Len(ret.attempts) :
           /\ ret.attempts[k].index \in 1..Len(arg)
           /\ k > 1 => ret.attempts[k].index \in
                           {ret.attempts[k - 1].index, ret.attempts[k - 1].index + 1}
           /\ k = 1 => ret.attempts[k].index = 1
           /\ k < Len(ret.attempts) => ~ret.attempts[k].ok
    /\ \A i \in 1..Len(arg) :
           \E tried \in {AttemptsFor(i)} :
               /\ Len(tried) <= 2
               /\ Len(tried) >= 1 =>
                      tried[1].params = IF AsksForStreamableHttp(arg[i])
                                        THEN "StreamableHttpParameters"
                                        ELSE "SseServerParameters"
               /\ Len(tried) = 2 =>
                      /\ tried[1].params = "StreamableHttpParameters"
                      /\ tried[2].params = "SseServerParameters"
    /\ pc = "conn_yielded" =>
           /\ ret.attempts # <<>>
           /\ ret.attempts[Len(ret.attempts)].ok
           /\ ret.out.connected_url = arg[ret.attempts[Len(ret.attempts)].index]
    /\ pc = "conn_raised" =>
           /\ ret.out = Raise("MCPConnectionError")
           /\ \A k \in 1..Len(ret.attempts) : ~ret.attempts[k].ok
           /\ \A i \in 1..Len(arg) : AttemptsFor(i) # <<>>
    /\ pc \notin {"conn_yielded", "conn_raised"} => ret.out = Null

\* the second candidate connects over SSE after Streamable HTTP failed for it
\* and the first candidate had failed
C28_Witness_SecondCandidateOverSseFallback ==
    /\ pc = "conn_yielded"
    /\ Len(ret.attempts) >= 3
    /\ ret.attempts[Len(ret.attempts)].index = 2
    /\ Len(AttemptsFor(2)) = 2
    /\ ret.out.connected_url = arg[2]

=============================================================================
